---- MODULE Spec2Model ----
(***************************************************************************)
(* LLMRateLimiter (src/src/utils/llm_rate_limiter.py): the broker between  *)
(* conversations and the rate-limited language-model backend.              *)
(*                                                                         *)
(* Callers are coroutines on one asyncio event loop: an action is the code *)
(* a coroutine runs between two suspension points (await of the lock, of a *)
(* sleep, of model.ainvoke, of a future).  Time is a whole number of       *)
(* abstract units; a sleep of d wakes at now + d or later.                 *)
(***************************************************************************)
EXTENDS Integers, Sequences, FiniteSets, TLC

\* ---------------------------------------------------------------- bounds
MaxReqs == 5        \* submissions per behaviour
Horizon == 4        \* time units the clock may advance after construction
RetryHorizon == 14  \* the same, where one submission is followed through its retries
GateHorizon == 2    \* the same, where four submissions meet
LiveHorizon == 1    \* the same, where the clock goes on for as long as a sleeper waits for it
ScenarioHorizon == 2 \* the same, in the end-to-end scenario
MaxTasks == 8       \* background tasks created per behaviour of initialize() and shutdown() calls
CancelHorizon == 3  \* the same, where callers are cancelled and the host shuts down
Epoch == 100        \* time.time() at construction, far from the 0 that
                    \* last_request_time and _circuit_breaker_opened_at start with

\* The RateLimitConfig handed to the constructor, in whole time units: one
\* with a single retry, as AthenaAgent passes, and one with the two retries
\* of the default, whose second backoff reaches max_backoff.
Config ==
    [ min_interval              |-> 1,
      max_retries               |-> 1,
      initial_backoff           |-> 1,
      max_backoff               |-> 2,
      backoff_factor            |-> 2,
      cache_ttl                 |-> 2,
      max_batch_size            |-> 2,
      batch_timeout             |-> 1,
      circuit_breaker_threshold |-> 2,
      circuit_breaker_timeout   |-> 2 ]

RetryConfig ==
    [Config EXCEPT !.max_retries = 2, !.backoff_factor = 3]

\* The configuration of the end-to-end scenario: a cache_ttl of 60 and the
\* default circuit_breaker_timeout of 300.
ScenarioConfig ==
    [Config EXCEPT !.cache_ttl = 60, !.circuit_breaker_timeout = 300]

ReqIds == 1..MaxReqs
BatchTask == MaxReqs + 1     \* the _process_batches task, as a lock owner

\* ---------------------------------------------------------------- strings
UpperChars == "ABCDEFGHIJKLMNOPQRSTUVWXYZ"
LowerChars == "abcdefghijklmnopqrstuvwxyz"

LowerChar(c) ==
    IF \E i \in 1..Len(UpperChars) : SubSeq(UpperChars, i, i) = c
    THEN LET i == CHOOSE j \in 1..Len(UpperChars) : SubSeq(UpperChars, j, j) = c
         IN  SubSeq(LowerChars, i, i)
    ELSE c

RECURSIVE lower(_)
lower(s) ==
    IF Len(s) = 0 THEN ""
    ELSE LowerChar(SubSeq(s, 1, 1)) \o lower(SubSeq(s, 2, Len(s)))

\* Python's `w in s` on strings.
Contains(s, w) ==
    \E i \in 1..(Len(s) - Len(w) + 1) : SubSeq(s, i, i + Len(w) - 1) = w

Min(a, b) == IF a < b THEN a ELSE b

\* ---------------------------------------------------------------- state
VARIABLES
    cfg,                \* self.config
    now,                \* time.time()
    last_request_time,  \* self.last_request_time
    lock,               \* self.lock: its holder (the head), then its waiters in FIFO order
    response_cache,     \* self._response_cache: key -> (response, timestamp)
    circuit,            \* _quota_error_count, _circuit_breaker_open, _circuit_breaker_opened_at
    batch_queue,        \* self._batch_queue: the requests whose futures are pending
    req,                \* the callers of generate_response, one per submission
    bp,                 \* the _process_batches task
    starts,             \* history: the start times of the last two model.ainvoke calls
    tasks               \* _queue_processor_task, _batch_processor_task, the tasks of
                        \* the event loop they were created as, and the shutdown() call

vars == <<cfg, now, last_request_time, lock, response_cache, circuit, batch_queue, req, bp, starts, tasks>>

\* ---------------------------------------------------------------- inputs
\* Message lists a caller may submit: each segment has a content attribute
\* (HumanMessage, SystemMessage) or has none.
Segment(c) == [has_content |-> TRUE, content |-> c]

\* A segment with no content attribute, s being its str().
Raw(s) == [has_content |-> FALSE, content |-> s]

MessageLists ==
    << << Segment("Schedule a sync") >>,
       << Segment("Hello") >>,
       << Raw("ping"), Segment("Please CANCEL it") >>,
       << Segment("Thanks"), Segment("book a room") >>,
       << Raw("ping") >>,
       << Segment("Please reschedule") >> >>

AllMsgs == DOMAIN MessageLists

\* The message lists the callers of the concurrent specifications submit.
Msgs == {m \in AllMsgs : m <= 2}

\* What model.ainvoke can return (response.content) ...
Texts == {"", "ok"}

\* ... or raise (str(e)).
BackendErrors == {"insufficient_quota", "Rate limit reached", "Throttled: check billing", "boom"}

Outcomes ==
    [ok : {TRUE}, val : Texts] \cup [ok : {FALSE}, val : BackendErrors]

\* ---------------------------------------------------------------- ErrorClassifier
quota_indicators ==
    {"insufficient_quota", "quota exceeded", "billing", "exceeded your current quota"}

rate_limit_indicators ==
    {"rate limit", "too many requests", "requests per minute",
     "requests per second", "rate limited", "throttled"}

\* any(indicator in error_str.lower() for indicator in indicators)
HasIndicator(error_str, indicators) ==
    \E indicator \in indicators : Contains(lower(error_str), indicator)

\* The strings the broker classifies: the backend's, and the backend's inside
\* the broker's own QuotaExceededError, raised in _make_request and raised
\* again in generate_response.
QuotaWrap(error_str) == "OpenAI quota exceeded: " \o error_str

ErrorStrings ==
    BackendErrors
      \cup {QuotaWrap(e) : e \in BackendErrors}
      \cup {QuotaWrap(QuotaWrap(e)) : e \in BackendErrors}

QuotaWords == [e \in ErrorStrings |-> HasIndicator(e, quota_indicators)]
RateLimitWords == [e \in ErrorStrings |-> HasIndicator(e, rate_limit_indicators)]

\* (a list of indicators that lacks the API's error code)
is_quota_error_incomplete(error_str) ==
    HasIndicator(error_str, {"quota exceeded", "billing", "exceeded your current quota"})

\* (a classifier that takes every rate-limit wording for a quota error)
is_quota_error_or_rate_limit(error_str) ==
    QuotaWords[error_str] \/ RateLimitWords[error_str]

is_quota_error(error_str) == QuotaWords[error_str]

\* (a rate-limit test that does not exclude quota errors)
is_rate_limit_error_overlapping(error_str) == RateLimitWords[error_str]

is_rate_limit_error(error_str) ==
    RateLimitWords[error_str] /\ ~is_quota_error(error_str)

\* The class _make_request's except clause gives an error, lines 354-373.
Classify(error_str) ==
    IF is_quota_error(error_str) THEN "Quota"
    ELSE IF is_rate_limit_error(error_str) THEN "RateLimit"
    ELSE "Other"

\* ---------------------------------------------------------------- FallbackResponder
\* The four texts of _get_fallback_response, each by its opening words.
FallbackSchedule == "Hey! I'd love to help you schedule that meeting."
FallbackGreeting == "Hi there! I'm Athena, your friendly digital assistant."
FallbackChange   == "I understand you need to make some changes to your schedule."
FallbackGeneric  == "Hey! I'm just taking a quick breather to handle some high demand"

get_fallback_response(message_content) ==
    LET content_lower == lower(message_content)
        any(words) == \E word \in words : Contains(content_lower, word)
    IN  IF any({"schedule", "meeting", "book", "appointment"}) THEN FallbackSchedule
        ELSE IF any({"hello", "hi", "start", "help"}) THEN FallbackGreeting
        ELSE IF any({"cancel", "reschedule", "change"}) THEN FallbackChange
        ELSE FallbackGeneric

\* The loop of _make_request and generate_response that picks the content the
\* fallback is chosen from: the first segment with a content attribute, else "".
RECURSIVE first_content(_)
first_content(messages) ==
    IF messages = <<>> THEN ""
    ELSE IF Head(messages).has_content THEN Head(messages).content
    ELSE first_content(Tail(messages))

Fallback == [m \in AllMsgs |-> get_fallback_response(first_content(MessageLists[m]))]

\* ---------------------------------------------------------------- CacheStore
\* serialize_message: model_dump() of a message, str() of anything else.
serialize_message(m) ==
    IF m.has_content THEN "{\"content\": \"" \o m.content \o "\"}"
    ELSE "\"" \o m.content \o "\""

\* json.dumps of a list.
RECURSIVE dumps_items(_)
dumps_items(items) ==
    IF items = <<>> THEN ""
    ELSE IF Len(items) = 1 THEN Head(items)
    ELSE Head(items) \o ", " \o dumps_items(Tail(items))

RECURSIVE serialize_all(_)
serialize_all(messages) ==
    IF messages = <<>> THEN <<>>
    ELSE <<serialize_message(Head(messages))>> \o serialize_all(Tail(messages))

\* str() of a bool.
str_bool(b) == IF b THEN "True" ELSE "False"

\* (a key made of the messages alone)
cache_key_text_tierless(messages, use_heavy_model) ==
    "[" \o dumps_items(serialize_all(messages)) \o "]"

\* f"{message_str}:{use_heavy_model}", the text _get_cache_key hashes.
cache_key_text(messages, use_heavy_model) ==
    "[" \o dumps_items(serialize_all(messages)) \o "]" \o ":" \o str_bool(use_heavy_model)

\* The keys of the message lists, by list and tier.  (md5 is taken as
\* collision-free: the digest is stood for by the text it is taken of.)
CacheKeys == [m \in AllMsgs |-> [h \in BOOLEAN |-> cache_key_text(MessageLists[m], h)]]

get_cache_key(m, use_heavy_model) == CacheKeys[m][use_heavy_model]

\* Optional[str]
None == [some |-> FALSE, val |-> ""]
Some(text) == [some |-> TRUE, val |-> text]

\* Python's truth value of an Optional[str]: None and "" are false.
Truthy(opt) == opt.some /\ opt.val # ""

\* (an entry of age cache_ttl taken as fresh)
get_cached_response_inclusive(store, cache_key, t) ==
    IF cache_key \in DOMAIN store
    THEN IF t - store[cache_key].timestamp <= cfg.cache_ttl
         THEN [ret |-> Some(store[cache_key].response), cache |-> store]
         ELSE [ret |-> None,
               cache |-> [k \in DOMAIN store \ {cache_key} |-> store[k]]]
    ELSE [ret |-> None, cache |-> store]

\* _get_cached_response: the value returned and the cache it leaves.
get_cached_response(store, cache_key, t) ==
    IF cache_key \in DOMAIN store
    THEN IF t - store[cache_key].timestamp < cfg.cache_ttl
         THEN [ret |-> Some(store[cache_key].response), cache |-> store]
         ELSE [ret |-> None,
               cache |-> [k \in DOMAIN store \ {cache_key} |-> store[k]]]
    ELSE [ret |-> None, cache |-> store]

\* (an entry that keeps the text the key had before)
cache_response_keeps_first(store, cache_key, response, t) ==
    [k \in DOMAIN store \cup {cache_key} |->
        IF k = cache_key /\ k \notin DOMAIN store THEN [response |-> response, timestamp |-> t]
        ELSE IF k = cache_key THEN [response |-> store[k].response, timestamp |-> t]
        ELSE store[k]]

\* _cache_response, lines 177-179.
cache_response(store, cache_key, response, t) ==
    [k \in DOMAIN store \cup {cache_key} |->
        IF k = cache_key THEN [response |-> response, timestamp |-> t]
        ELSE store[k]]

\* ---------------------------------------------------------------- CircuitBreaker
\* (the cooldown taken as elapsed at circuit_breaker_timeout sharp)
check_circuit_breaker_inclusive(cb, t) ==
    IF cb.open
    THEN IF t - cb.opened_at >= cfg.circuit_breaker_timeout
         THEN [ret |-> FALSE, cb |-> [cb EXCEPT !.open = FALSE, !.quota_error_count = 0]]
         ELSE [ret |-> TRUE, cb |-> cb]
    ELSE IF cb.quota_error_count >= cfg.circuit_breaker_threshold
         THEN [ret |-> TRUE, cb |-> [cb EXCEPT !.open = TRUE, !.opened_at = t]]
         ELSE [ret |-> FALSE, cb |-> cb]

\* (the count left as it is when the circuit closes)
check_circuit_breaker_keeps_count(cb, t) ==
    IF cb.open
    THEN IF t - cb.opened_at > cfg.circuit_breaker_timeout
         THEN [ret |-> FALSE, cb |-> [cb EXCEPT !.open = FALSE]]
         ELSE [ret |-> TRUE, cb |-> cb]
    ELSE IF cb.quota_error_count >= cfg.circuit_breaker_threshold
         THEN [ret |-> TRUE, cb |-> [cb EXCEPT !.open = TRUE, !.opened_at = t]]
         ELSE [ret |-> FALSE, cb |-> cb]

\* _check_circuit_breaker at time t: the value returned and the state it leaves.
check_circuit_breaker(cb, t) ==
    IF cb.open
    THEN IF t - cb.opened_at > cfg.circuit_breaker_timeout
         THEN [ret |-> FALSE, cb |-> [cb EXCEPT !.open = FALSE, !.quota_error_count = 0]]
         ELSE [ret |-> TRUE, cb |-> cb]
    ELSE IF cb.quota_error_count >= cfg.circuit_breaker_threshold
         THEN [ret |-> TRUE, cb |-> [cb EXCEPT !.open = TRUE, !.opened_at = t]]
         ELSE [ret |-> FALSE, cb |-> cb]

\* ---------------------------------------------------------------- callers
NoResult == [kind |-> "none", val |-> "", cls |-> ""]
Returned(text) == [kind |-> "text", val |-> text, cls |-> ""]
Raised(exc) == [kind |-> "raise", val |-> exc.msg, cls |-> exc.cls]

\* An exception: its class and str(e).
Exc(cls, msg) == [cls |-> cls, msg |-> msg]

NoOutcome == [kind |-> "none", val |-> ""]

NewRequest ==
    [ pc        |-> "new",
      priority  |-> TRUE,
      messages  |-> 1,
      use_heavy_model |-> FALSE,
      attempt   |-> 0,          \* _make_request: attempt, backoff
      backoff   |-> 0,
      g_attempt |-> 0,          \* generate_response: attempt, backoff
      g_backoff |-> 0,
      wake      |-> 0,          \* when the sleep the caller is in ends
      res       |-> NoResult,   \* what generate_response gave its caller
      \* history
      invocations |-> 0,        \* model.ainvoke calls made for this submission
      failures  |-> 0,          \* ... of which failed with a rate-limit error
      slept     |-> 0,          \* the backoff sleep the caller is in
      slept_total |-> 0,        \* the backoff sleeps of this submission, added up
      own       |-> NoOutcome,  \* the outcome of its last model.ainvoke
      via       |-> "",         \* where res came from: backend, cache, fallback, error
      sub_phase |-> "",         \* the circuit's phase when it was submitted
      chk_phase |-> "",         \* ... and when its circuit check was first made
      t_ok      |-> 0 ]         \* when its model.ainvoke succeeded

\* A task handle that is None.
NoTask == 0

\* The tasks after construction: none was created, alive is the set of tasks
\* that have not finished, cancelled the set of those whose cancel() was
\* called, sd the place of the shutdown() call in progress, last the call
\* that returned last.
NoTasks ==
    [ queue_task |-> NoTask,
      batch_task |-> NoTask,
      created    |-> 0,
      alive      |-> {},
      cancelled  |-> {},
      sd         |-> "idle",
      last       |-> "" ]

InitWith(config) ==
    /\ cfg = config
    /\ now = Epoch
    /\ last_request_time = 0
    /\ lock = <<>>
    /\ response_cache = <<>>
    /\ circuit = [quota_error_count |-> 0, open |-> FALSE, opened_at |-> 0]
    /\ batch_queue = <<>>
    /\ req = [r \in ReqIds |-> NewRequest]
    /\ bp = [pc |-> "off", wake |-> 0, todo |-> <<>>, idx |-> 0, responses |-> <<>>]
    /\ starts = <<>>
    /\ tasks = NoTasks

Init == InitWith(Config)

InitRetry == InitWith(RetryConfig)

InitScenario == InitWith(ScenarioConfig)

\* Where _check_circuit_breaker would find the circuit: open within its
\* cooldown, open with the cooldown elapsed, closed with the threshold reached
\* (the next check opens it), or closed.
Phase(cb) ==
    IF cb.open
    THEN IF now - cb.opened_at > cfg.circuit_breaker_timeout THEN "expired" ELSE "open"
    ELSE IF cb.quota_error_count >= cfg.circuit_breaker_threshold THEN "tripped" ELSE "closed"

Gated == {"open", "tripped"}

Done(r) == req[r].pc = "done"

Finish(rq, res, via) ==
    [rq EXCEPT !.pc = "done", !.res = res, !.via = via, !.attempt = 0, !.backoff = 0,
               !.g_attempt = 0, !.g_backoff = 0, !.wake = 0, !.slept = 0]

Started(times) ==
    IF Len(times) < 2 THEN Append(times, now) ELSE <<times[2], now>>

\* model.ainvoke(messages) is called and awaited.
StartInvoke(rq) ==
    [rq EXCEPT !.pc = "invoke", !.invocations = @ + 1, !.wake = 0, !.slept = 0]

\* (a handler that turns every exception into the fallback text)
Propagate_catch_all(rq, exc) ==
    Finish(rq, Returned(Fallback[rq.messages]), "fallback")

\* generate_response, lines 493-501 and the caller: an exception leaving the
\* try block becomes the fallback text or reaches the caller.
Propagate(rq, exc) ==
    IF exc.cls \in {"QuotaExceededError", "CircuitBreakerError"}
    THEN Finish(rq, Returned(Fallback[rq.messages]), "fallback")
    ELSE Finish(rq, Raised(exc), "error")

\* (one retry too many)
retries_left_off_by_one(attempt) == attempt <= cfg.max_retries

\* (a backoff that max_backoff does not cap)
wait_time_uncapped(backoff) == backoff

\* attempt < self.config.max_retries, in both retry loops.
retries_left(attempt) == attempt < cfg.max_retries

\* wait_time = min(backoff, self.config.max_backoff), in both retry loops.
wait_time(backoff) == Min(backoff, cfg.max_backoff)

\* generate_response, lines 475-488: _make_request raised exc.  The caller's
\* record and the circuit state that result.
GenerateHandler(rq, exc, cb) ==
    IF is_rate_limit_error(exc.msg)
    THEN IF retries_left(rq.g_attempt)
         THEN [rq |-> [rq EXCEPT !.pc = "retry",
                                 !.wake = now + wait_time(rq.g_backoff),
                                 !.slept = wait_time(rq.g_backoff),
                                 !.slept_total = @ + wait_time(rq.g_backoff),
                                 !.g_backoff = @ * cfg.backoff_factor,
                                 !.g_attempt = @ + 1,
                                 !.attempt = 0, !.backoff = 0],
               cb |-> cb]
         ELSE [rq |-> Propagate(rq, exc), cb |-> cb]
    ELSE IF is_quota_error(exc.msg)
    THEN [rq |-> Propagate(rq, Exc("QuotaExceededError", QuotaWrap(exc.msg))),
          cb |-> [cb EXCEPT !.quota_error_count = @ + 1]]
    ELSE [rq |-> Propagate(rq, exc), cb |-> cb]

\* _make_request, lines 331-339, once the lock is held: _wait_for_rate_limit,
\* then the first attempt.
AfterAcquire(r, rq) ==
    LET time_since_last == now - last_request_time IN
    IF time_since_last < cfg.min_interval
    THEN /\ req' = [req EXCEPT ![r] = [rq EXCEPT !.pc = "pace",
                        !.wake = now + (cfg.min_interval - time_since_last)]]
         /\ UNCHANGED starts
    ELSE /\ req' = [req EXCEPT ![r] = StartInvoke([rq EXCEPT !.attempt = 0,
                        !.backoff = cfg.initial_backoff])]
         /\ starts' = Started(starts)

\* (the cache looked up before the circuit is checked)
EnterMakeRequest_cache_first(r, rq) ==
    LET chk  == check_circuit_breaker(circuit, now)
        key  == get_cache_key(rq.messages, rq.use_heavy_model)
        look == get_cached_response(response_cache, key, now)
    IN  /\ response_cache' = look.cache
        /\ IF Truthy(look.ret)
           THEN /\ req' = [req EXCEPT ![r] = Finish(rq, Returned(look.ret.val), "cache")]
                /\ UNCHANGED <<circuit, lock, starts>>
           ELSE /\ circuit' = chk.cb
                /\ IF chk.ret
                   THEN /\ req' = [req EXCEPT ![r] = Finish(rq, Returned(Fallback[rq.messages]), "fallback")]
                        /\ UNCHANGED <<lock, starts>>
                   ELSE IF lock = <<>>
                   THEN /\ lock' = <<r>>
                        /\ AfterAcquire(r, rq)
                   ELSE /\ lock' = Append(lock, r)
                        /\ req' = [req EXCEPT ![r] = [rq EXCEPT !.pc = "lock", !.wake = 0, !.slept = 0]]
                        /\ UNCHANGED starts

\* _make_request, lines 312-332: the circuit check, the cache lookup and the
\* acquisition of the lock, up to the first suspension.
EnterMakeRequest(r, rq) ==
    LET chk  == check_circuit_breaker(circuit, now)
        key  == get_cache_key(rq.messages, rq.use_heavy_model)
        look == get_cached_response(response_cache, key, now)
    IN  /\ circuit' = chk.cb
        /\ IF chk.ret
           THEN /\ req' = [req EXCEPT ![r] = Finish(rq, Returned(Fallback[rq.messages]), "fallback")]
                /\ UNCHANGED <<response_cache, lock, starts>>
           ELSE /\ response_cache' = look.cache
                /\ IF Truthy(look.ret)
                   THEN /\ req' = [req EXCEPT ![r] = Finish(rq, Returned(look.ret.val), "cache")]
                        /\ UNCHANGED <<lock, starts>>
                   ELSE IF lock = <<>>
                   THEN /\ lock' = <<r>>
                        /\ AfterAcquire(r, rq)
                   ELSE /\ lock' = Append(lock, r)
                        /\ req' = [req EXCEPT ![r] = [rq EXCEPT !.pc = "lock", !.wake = 0, !.slept = 0]]
                        /\ UNCHANGED starts

CanSubmit(r) == req[r].pc = "new" /\ \A q \in 1..(r - 1) : req[q].pc # "new"

\* initialize(): the batch task is created unless there is one.
initialize(b) == IF b.pc = "off" THEN [b EXCEPT !.pc = "poll"] ELSE b

\* asyncio.create_task(...): a new task of the kind, alive.
create_task(t, kind) ==
    [t EXCEPT !.created = @ + 1,
              !.alive = @ \cup {[id |-> t.created + 1, kind |-> kind]}]

\* (a task of each kind is created at every call)
initialize_tasks_unconditional(t) ==
    LET q == [create_task(t, "queue") EXCEPT !.queue_task = t.created + 1]
        b == [create_task(q, "batch") EXCEPT !.batch_task = q.created + 1]
    IN  [b EXCEPT !.last = "initialize"]

\* initialize(), lines 150-153: each task is created unless its handle is set.
initialize_tasks(t) ==
    LET q == IF t.queue_task = NoTask
             THEN [create_task(t, "queue") EXCEPT !.queue_task = t.created + 1]
             ELSE t
        b == IF q.batch_task = NoTask
             THEN [create_task(q, "batch") EXCEPT !.batch_task = q.created + 1]
             ELSE q
    IN  [b EXCEPT !.last = "initialize"]

Submitted(r, m, h, p) ==
    [req[r] EXCEPT !.priority = p, !.messages = m, !.use_heavy_model = h,
                   !.sub_phase = Phase(circuit),
                   !.chk_phase = IF p THEN Phase(circuit) ELSE ""]

\* generate_response(messages, use_heavy_model, priority=True) is called.
SubmitPriority(r, m, h) ==
    /\ CanSubmit(r)
    /\ tasks' = initialize_tasks(tasks)
    /\ bp' = IF tasks'.batch_task # tasks.batch_task THEN initialize(bp) ELSE bp
    /\ EnterMakeRequest(r, [Submitted(r, m, h, TRUE) EXCEPT
                               !.g_attempt = 0, !.g_backoff = cfg.initial_backoff])
    /\ UNCHANGED <<cfg, now, last_request_time, batch_queue>>

\* (a lock that admits a waiter while another caller holds it)
LockGranted_while_held(r) ==
    /\ req[r].pc = "lock"
    /\ AfterAcquire(r, req[r])
    /\ UNCHANGED <<cfg, tasks, now, last_request_time, lock, response_cache, circuit, batch_queue, bp>>

\* The lock is released to the caller at the head of its waiters.
LockGranted(r) ==
    /\ req[r].pc = "lock"
    /\ lock # <<>> /\ Head(lock) = r
    /\ AfterAcquire(r, req[r])
    /\ UNCHANGED <<cfg, tasks, now, last_request_time, lock, response_cache, circuit, batch_queue, bp>>

\* The sleep of _wait_for_rate_limit ends.
PaceWake(r) ==
    /\ req[r].pc = "pace"
    /\ now >= req[r].wake
    /\ req' = [req EXCEPT ![r] = StartInvoke([@ EXCEPT !.attempt = 0,
                   !.backoff = cfg.initial_backoff])]
    /\ starts' = Started(starts)
    /\ UNCHANGED <<cfg, tasks, now, last_request_time, lock, response_cache, circuit, batch_queue, bp>>

\* _make_request, lines 339-373: model.ainvoke returns or raises.
InvokeReturn(r, o) ==
    /\ req[r].pc = "invoke"
    /\ LET rq == [req[r] EXCEPT !.own = [kind |-> IF o.ok THEN "ok" ELSE "err", val |-> o.val]]
           key == get_cache_key(rq.messages, rq.use_heavy_model)
       IN
       IF o.ok
       THEN /\ last_request_time' = now
            /\ circuit' = [circuit EXCEPT !.quota_error_count = 0]
            /\ response_cache' = cache_response(response_cache, key, o.val, now)
            /\ lock' = Tail(lock)
            /\ req' = [req EXCEPT ![r] = Finish([rq EXCEPT !.t_ok = now], Returned(o.val), "backend")]
       ELSE IF is_quota_error(o.val)
       THEN LET h == GenerateHandler(rq, Exc("QuotaExceededError", QuotaWrap(o.val)),
                                     [circuit EXCEPT !.quota_error_count = @ + 1])
            IN  /\ circuit' = h.cb
                /\ req' = [req EXCEPT ![r] = h.rq]
                /\ lock' = Tail(lock)
                /\ UNCHANGED <<last_request_time, response_cache>>
       ELSE IF is_rate_limit_error(o.val) /\ retries_left(rq.attempt)
       THEN /\ req' = [req EXCEPT ![r] = [rq EXCEPT !.pc = "backoff",
                          !.wake = now + wait_time(rq.backoff),
                          !.slept = wait_time(rq.backoff),
                          !.slept_total = @ + wait_time(rq.backoff),
                          !.backoff = @ * cfg.backoff_factor,
                          !.attempt = @ + 1,
                          !.failures = @ + 1]]
            /\ UNCHANGED <<last_request_time, response_cache, circuit, lock>>
       ELSE LET h == GenerateHandler(
                        [rq EXCEPT !.failures = IF is_rate_limit_error(o.val) THEN @ + 1 ELSE @],
                        Exc("Exception", o.val), circuit)
            IN  /\ circuit' = h.cb
                /\ req' = [req EXCEPT ![r] = h.rq]
                /\ lock' = Tail(lock)
                /\ UNCHANGED <<last_request_time, response_cache>>
    /\ UNCHANGED <<cfg, tasks, now, batch_queue, bp, starts>>

\* The backoff sleep of _make_request ends: the next attempt.
BackoffWake(r) ==
    /\ req[r].pc = "backoff"
    /\ now >= req[r].wake
    /\ req' = [req EXCEPT ![r] = StartInvoke(@)]
    /\ starts' = Started(starts)
    /\ UNCHANGED <<cfg, tasks, now, last_request_time, lock, response_cache, circuit, batch_queue, bp>>

\* The backoff sleep of generate_response ends: _make_request is called again.
RetryWake(r) ==
    /\ req[r].pc = "retry"
    /\ now >= req[r].wake
    /\ EnterMakeRequest(r, req[r])
    /\ UNCHANGED <<cfg, tasks, now, last_request_time, batch_queue, bp>>

\* ---------------------------------------------------------------- BatchScheduler
\* generate_response(messages, use_heavy_model, priority=False) is called: the
\* request joins the batch queue and its caller awaits the future.
SubmitBatch(r, m, h) ==
    /\ CanSubmit(r)
    /\ tasks' = initialize_tasks(tasks)
    /\ bp' = IF tasks'.batch_task # tasks.batch_task THEN initialize(bp) ELSE bp
    /\ batch_queue' = Append(batch_queue, r)
    /\ req' = [req EXCEPT ![r] = [Submitted(r, m, h, FALSE) EXCEPT !.pc = "queued"]]
    /\ UNCHANGED <<cfg, now, last_request_time, lock, response_cache, circuit, starts>>

BatchIdle == [pc |-> "poll", wake |-> 0, todo |-> <<>>, idx |-> 0, responses |-> <<>>]

\* (the heavy requests taken before the light ones)
Partitions_heavy_first(rqs, current_batch) ==
    LET light == SelectSeq(current_batch, LAMBDA r : ~rqs[r].use_heavy_model)
        heavy == SelectSeq(current_batch, LAMBDA r : rqs[r].use_heavy_model)
    IN  (IF heavy # <<>> THEN <<[heavy |-> TRUE, items |-> heavy]>> ELSE <<>>)
        \o (IF light # <<>> THEN <<[heavy |-> FALSE, items |-> light]>> ELSE <<>>)

\* _process_batches, lines 193-200: the light requests, then the heavy ones.
Partitions(rqs, current_batch) ==
    LET light == SelectSeq(current_batch, LAMBDA r : ~rqs[r].use_heavy_model)
        heavy == SelectSeq(current_batch, LAMBDA r : rqs[r].use_heavy_model)
    IN  (IF light # <<>> THEN <<[heavy |-> FALSE, items |-> light]>> ELSE <<>>)
        \o (IF heavy # <<>> THEN <<[heavy |-> TRUE, items |-> heavy]>> ELSE <<>>)

Items(part) == {part.items[i] : i \in DOMAIN part.items}

\* The place in the partition of its first request whose future is done
\* before the batch task delivers anything, which is the case of a caller
\* cancelled while it awaited the future; past the last place if there is none.
FirstCancelled(rqs, part) ==
    IF \E i \in DOMAIN part.items : rqs[part.items[i]].pc = "done"
    THEN CHOOSE i \in DOMAIN part.items :
            /\ rqs[part.items[i]].pc = "done"
            /\ \A j \in 1..(i - 1) : rqs[part.items[j]].pc # "done"
    ELSE Len(part.items) + 1

\* set_result or set_exception on a future that is done raises
\* InvalidStateError: in the try block of lines 204-210 it sends the task to
\* the except clause, whose first set_exception raises it again, and in the
\* except clause it leaves the iteration of the loop for line 229.
Aborts(rqs, part) == FirstCancelled(rqs, part) <= Len(part.items)

\* The partitions the batch task goes on to when it is done with the first.
Rest(rqs, todo) == IF Aborts(rqs, Head(todo)) THEN <<>> ELSE Tail(todo)

\* _process_batches, lines 211-213: future.set_exception(e) for the requests
\* of the partition, in turn; each caller's generate_response ends as
\* Propagate says.
SetException(rqs, part, exc) ==
    [r \in ReqIds |->
        IF \E i \in DOMAIN part.items : part.items[i] = r /\ i < FirstCancelled(rqs, part)
        THEN Propagate(rqs[r], exc)
        ELSE rqs[r]]

\* (only the first future of the partition is given its response)
SetResult_first_only(rqs, part, responses) ==
    [r \in ReqIds |->
        IF part.items[1] = r /\ responses # <<>>
        THEN Finish(rqs[r], Returned(responses[1]), "backend")
        ELSE rqs[r]]

\* _process_batches, lines 209-210: future.set_result(response), pairwise.
SetResult(rqs, part, responses) ==
    [r \in ReqIds |->
        IF \E i \in DOMAIN part.items :
              part.items[i] = r /\ i <= Len(responses) /\ i < FirstCancelled(rqs, part)
        THEN LET i == CHOOSE j \in DOMAIN part.items : part.items[j] = r
             IN  Finish(rqs[r], Returned(responses[i]), "backend")
        ELSE rqs[r]]

\* _make_batch_request, line 250: model.ainvoke for item i of the partition.
BatchStartItem(todo, i, responses, rqs) ==
    [bp     |-> [pc |-> "invoke", wake |-> 0, todo |-> todo, idx |-> i, responses |-> responses],
     req    |-> [rqs EXCEPT ![Head(todo).items[i]] = [@ EXCEPT !.invocations = @ + 1]],
     starts |-> Started(starts)]

\* _make_batch_request, lines 243-248, once the lock is held.
BatchAfterAcquire(todo, rqs, lrt) ==
    LET time_since_last == now - lrt IN
    IF time_since_last < cfg.min_interval
    THEN [bp     |-> [pc |-> "pace", wake |-> now + (cfg.min_interval - time_since_last),
                      todo |-> todo, idx |-> 0, responses |-> <<>>],
          req    |-> rqs,
          starts |-> starts]
    ELSE BatchStartItem(todo, 1, <<>>, rqs)

MarkChecked(rqs, part, cb) ==
    [r \in ReqIds |-> IF r \in Items(part) THEN [rqs[r] EXCEPT !.chk_phase = Phase(cb)]
                      ELSE rqs[r]]

\* _process_batches, lines 203-228, and _make_batch_request, lines 239-242:
\* the partitions still to flush are taken in turn up to the first
\* suspension; with none left the task sleeps and polls again.
RECURSIVE RunPartitions(_, _, _, _, _)
RunPartitions(todo, cb, lk, rqs, lrt) ==
    IF todo = <<>>
    THEN [bp |-> BatchIdle, circuit |-> cb, lock |-> lk, req |-> rqs, starts |-> starts]
    ELSE LET chk == check_circuit_breaker(cb, now)
             marked == MarkChecked(rqs, Head(todo), cb)
         IN  IF chk.ret
             THEN RunPartitions(Rest(marked, todo), chk.cb, lk,
                      SetException(marked, Head(todo),
                          Exc("CircuitBreakerError", "Circuit breaker is open due to quota errors")),
                      lrt)
             ELSE IF lk = <<>>
             THEN LET a == BatchAfterAcquire(todo, marked, lrt)
                  IN  [bp |-> a.bp, circuit |-> chk.cb, lock |-> <<BatchTask>>,
                       req |-> a.req, starts |-> a.starts]
             ELSE [bp |-> [pc |-> "lock", wake |-> 0, todo |-> todo, idx |-> 0, responses |-> <<>>],
                   circuit |-> chk.cb, lock |-> Append(lk, BatchTask),
                   req |-> marked, starts |-> starts]

\* _process_batches, line 185-187: the queue is not empty, the task sleeps
\* batch_timeout.
BatchPoll ==
    /\ bp.pc = "poll"
    /\ batch_queue # <<>>
    /\ bp' = [bp EXCEPT !.pc = "timer", !.wake = now + cfg.batch_timeout]
    /\ UNCHANGED <<cfg, tasks, now, last_request_time, lock, response_cache, circuit, batch_queue, req, starts>>

\* (a flush that empties the queue, whatever it took)
BatchFlush_clears_queue ==
    /\ bp.pc = "timer"
    /\ now >= bp.wake
    /\ LET current_batch == SubSeq(batch_queue, 1, Min(cfg.max_batch_size, Len(batch_queue)))
           n == RunPartitions(Partitions(req, current_batch), circuit, lock, req, last_request_time)
       IN  /\ batch_queue' = <<>>
           /\ bp' = n.bp /\ circuit' = n.circuit /\ lock' = n.lock
           /\ req' = n.req /\ starts' = n.starts
    /\ UNCHANGED <<cfg, tasks, now, last_request_time, response_cache>>

\* _process_batches, lines 190-205: the sleep ends, the batch is taken.
BatchFlush ==
    /\ bp.pc = "timer"
    /\ now >= bp.wake
    /\ LET current_batch == SubSeq(batch_queue, 1, Min(cfg.max_batch_size, Len(batch_queue)))
           n == RunPartitions(Partitions(req, current_batch), circuit, lock, req, last_request_time)
       IN  /\ batch_queue' = SubSeq(batch_queue, cfg.max_batch_size + 1, Len(batch_queue))
           /\ bp' = n.bp /\ circuit' = n.circuit /\ lock' = n.lock
           /\ req' = n.req /\ starts' = n.starts
    /\ UNCHANGED <<cfg, tasks, now, last_request_time, response_cache>>

\* The lock is released to the batch task.
BatchLockGranted ==
    /\ bp.pc = "lock"
    /\ lock # <<>> /\ Head(lock) = BatchTask
    /\ LET a == BatchAfterAcquire(bp.todo, req, last_request_time)
       IN  bp' = a.bp /\ req' = a.req /\ starts' = a.starts
    /\ UNCHANGED <<cfg, tasks, now, last_request_time, lock, response_cache, circuit, batch_queue>>

\* The sleep of _wait_for_rate_limit ends.
BatchPaceWake ==
    /\ bp.pc = "pace"
    /\ now >= bp.wake
    /\ LET a == BatchStartItem(bp.todo, 1, <<>>, req)
       IN  bp' = a.bp /\ req' = a.req /\ starts' = a.starts
    /\ UNCHANGED <<cfg, tasks, now, last_request_time, lock, response_cache, circuit, batch_queue>>

\* _make_batch_request raised exc: the lock is released, every future of the
\* partition gets the exception, the next partition is taken.
BatchRaise(rqs, cb, exc) ==
    LET n == RunPartitions(Rest(rqs, bp.todo), cb, Tail(lock),
                           SetException(rqs, Head(bp.todo), exc), last_request_time)
    IN  /\ bp' = n.bp /\ circuit' = n.circuit /\ lock' = n.lock
        /\ req' = n.req /\ starts' = n.starts
        /\ UNCHANGED last_request_time

\* (the lock given up after each item of a partition)
BatchAppended_lock_per_item(rqs, cb, responses) ==
    IF bp.idx < Len(Head(bp.todo).items)
    THEN LET a == BatchStartItem(bp.todo, bp.idx + 1, responses, rqs)
         IN  /\ bp' = a.bp /\ req' = a.req /\ starts' = a.starts
             /\ circuit' = cb
             /\ lock' = Tail(lock)
             /\ UNCHANGED last_request_time
    ELSE LET n == RunPartitions(Rest(rqs, bp.todo), cb, Tail(lock),
                                SetResult(rqs, Head(bp.todo), responses), now)
         IN  /\ last_request_time' = now
             /\ bp' = n.bp /\ circuit' = n.circuit /\ lock' = n.lock
             /\ req' = n.req /\ starts' = n.starts

\* A response was appended: the next item's model.ainvoke, or lines 268-269
\* and the delivery of the responses.
BatchAppended(rqs, cb, responses) ==
    IF bp.idx < Len(Head(bp.todo).items)
    THEN LET a == BatchStartItem(bp.todo, bp.idx + 1, responses, rqs)
         IN  /\ bp' = a.bp /\ req' = a.req /\ starts' = a.starts
             /\ circuit' = cb
             /\ UNCHANGED <<last_request_time, lock>>
    ELSE LET n == RunPartitions(Rest(rqs, bp.todo), cb, Tail(lock),
                                SetResult(rqs, Head(bp.todo), responses), now)
         IN  /\ last_request_time' = now
             /\ bp' = n.bp /\ circuit' = n.circuit /\ lock' = n.lock
             /\ req' = n.req /\ starts' = n.starts

\* _make_batch_request, lines 250-266: model.ainvoke returns or raises.
BatchInvokeReturn(o) ==
    /\ bp.pc = "invoke"
    /\ LET r   == Head(bp.todo).items[bp.idx]
           rqs == [req EXCEPT ![r] = [@ EXCEPT !.own = [kind |-> IF o.ok THEN "ok" ELSE "err", val |-> o.val]]]
       IN
       IF o.ok
       THEN BatchAppended(rqs, [circuit EXCEPT !.quota_error_count = 0], Append(bp.responses, o.val))
       ELSE IF is_quota_error(o.val)
       THEN BatchRaise(rqs, [circuit EXCEPT !.quota_error_count = @ + 1],
                       Exc("QuotaExceededError", QuotaWrap(o.val)))
       ELSE IF is_rate_limit_error(o.val)
       THEN /\ bp' = [bp EXCEPT !.pc = "rl_sleep", !.wake = now + cfg.min_interval]
            /\ req' = [rqs EXCEPT ![r] = [@ EXCEPT !.failures = @ + 1]]
            /\ UNCHANGED <<last_request_time, lock, circuit, starts>>
       ELSE BatchRaise(rqs, circuit, Exc("Exception", o.val))
    /\ UNCHANGED <<cfg, tasks, now, response_cache, batch_queue>>

\* _make_batch_request, lines 262-263: the sleep after a rate-limit error
\* ends, model.ainvoke is called once more.
BatchRetryWake ==
    /\ bp.pc = "rl_sleep"
    /\ now >= bp.wake
    /\ LET a == BatchStartItem(bp.todo, bp.idx, bp.responses, req)
       IN  bp' = [a.bp EXCEPT !.pc = "reinvoke"] /\ req' = a.req /\ starts' = a.starts
    /\ UNCHANGED <<cfg, tasks, now, last_request_time, lock, response_cache, circuit, batch_queue>>

\* _make_batch_request, lines 263-264: the second model.ainvoke returns, or
\* raises out of the except clause.
BatchReinvokeReturn(o) ==
    /\ bp.pc = "reinvoke"
    /\ LET r   == Head(bp.todo).items[bp.idx]
           rqs == [req EXCEPT ![r] = [@ EXCEPT !.own = [kind |-> IF o.ok THEN "ok" ELSE "err", val |-> o.val]]]
       IN
       IF o.ok
       THEN BatchAppended(rqs, circuit, Append(bp.responses, o.val))
       ELSE BatchRaise(rqs, circuit, Exc("Exception", o.val))
    /\ UNCHANGED <<cfg, tasks, now, response_cache, batch_queue>>

\* The clock advances.
Tick(horizon) ==
    /\ now < Epoch + horizon
    /\ now' = now + 1
    /\ UNCHANGED <<cfg, tasks, last_request_time, lock, response_cache, circuit, batch_queue, req, bp, starts>>

\* The steps of the callers in ids, submitting messages of msgs for the tiers
\* of tiers, with the clock running up to Epoch + horizon.
Step(ids, msgs, tiers, horizon) ==
    \/ \E r \in ids, m \in msgs, h \in tiers : SubmitPriority(r, m, h)
    \/ \E r \in ids : LockGranted(r)
    \/ \E r \in ids : PaceWake(r)
    \/ \E r \in ids, o \in Outcomes : InvokeReturn(r, o)
    \/ \E r \in ids : BackoffWake(r)
    \/ \E r \in ids : RetryWake(r)
    \/ \E r \in ids, m \in msgs, h \in tiers : SubmitBatch(r, m, h)
    \/ BatchPoll
    \/ BatchFlush
    \/ BatchLockGranted
    \/ BatchPaceWake
    \/ \E o \in Outcomes : BatchInvokeReturn(o)
    \/ BatchRetryWake
    \/ \E o \in Outcomes : BatchReinvokeReturn(o)
    \/ Tick(horizon)

\* Two concurrent submissions of any message and tier.
Next == Step(1..(MaxReqs - 3), Msgs, BOOLEAN, Horizon)

Spec == Init /\ [][Next]_vars

\* Three concurrent submissions of one message to the light model.
NextThree == Step(1..(MaxReqs - 2), {1}, {FALSE}, Horizon)

SpecThree == Init /\ [][NextThree]_vars

\* One priority submission, followed through every retry.
NextRetry ==
    \/ \E m \in Msgs, h \in BOOLEAN : SubmitPriority(1, m, h)
    \/ \E o \in Outcomes : InvokeReturn(1, o)
    \/ BackoffWake(1)
    \/ RetryWake(1)
    \/ Tick(RetryHorizon)

SpecRetry == InitRetry /\ [][NextRetry]_vars

\* Somebody sleeps and the time to wake has not come.
Sleeping ==
    \/ \E r \in ReqIds : req[r].pc \in {"pace", "backoff", "retry"} /\ req[r].wake > now
    \/ bp.pc \in {"timer", "pace", "rl_sleep"} /\ bp.wake > now

\* The clock advances: freely up to Epoch + horizon, and after that for as
\* long as a sleeper waits for it, so that no sleep lasts forever.
TickLive(horizon) ==
    /\ now < Epoch + horizon \/ Sleeping
    /\ now' = now + 1
    /\ UNCHANGED <<cfg, tasks, last_request_time, lock, response_cache, circuit, batch_queue, req, bp, starts>>

LiveIds == 1..(MaxReqs - 3)

\* Two concurrent submissions of one message, to either model, on an event
\* loop that runs every task that is ready, with a backend that answers every
\* call and a clock that does not stop.
NextLive ==
    \/ \E r \in LiveIds, h \in BOOLEAN : SubmitPriority(r, 1, h)
    \/ \E r \in LiveIds : LockGranted(r)
    \/ \E r \in LiveIds : PaceWake(r)
    \/ \E r \in LiveIds, o \in Outcomes : InvokeReturn(r, o)
    \/ \E r \in LiveIds : BackoffWake(r)
    \/ \E r \in LiveIds : RetryWake(r)
    \/ \E r \in LiveIds, h \in BOOLEAN : SubmitBatch(r, 1, h)
    \/ BatchPoll
    \/ BatchFlush
    \/ BatchLockGranted
    \/ BatchPaceWake
    \/ \E o \in Outcomes : BatchInvokeReturn(o)
    \/ BatchRetryWake
    \/ \E o \in Outcomes : BatchReinvokeReturn(o)
    \/ TickLive(LiveHorizon)

Fairness ==
    /\ \A r \in LiveIds :
          /\ WF_vars(LockGranted(r))
          /\ WF_vars(PaceWake(r))
          /\ WF_vars(\E o \in Outcomes : InvokeReturn(r, o))
          /\ WF_vars(BackoffWake(r))
          /\ WF_vars(RetryWake(r))
    /\ WF_vars(BatchPoll)
    /\ WF_vars(BatchFlush)
    /\ WF_vars(BatchLockGranted)
    /\ WF_vars(BatchPaceWake)
    /\ WF_vars(\E o \in Outcomes : BatchInvokeReturn(o))
    /\ WF_vars(BatchRetryWake)
    /\ WF_vars(\E o \in Outcomes : BatchReinvokeReturn(o))
    /\ WF_vars(TickLive(LiveHorizon))

SpecLive == Init /\ [][NextLive]_vars /\ Fairness

\* The end-to-end scenario: "Schedule a sync" is submitted to the light model
\* and, when it is answered, once more; then two submissions of another
\* message, priority or batched, to either model; and when these are answered,
\* "Schedule a sync" to the heavy model.
NextScenario ==
    \/ SubmitPriority(1, 1, FALSE)
    \/ Done(1) /\ SubmitPriority(2, 1, FALSE)
    \/ \E r \in {3, 4}, h \in BOOLEAN : Done(2) /\ SubmitPriority(r, 2, h)
    \/ \E r \in {3, 4}, h \in BOOLEAN : Done(2) /\ SubmitBatch(r, 2, h)
    \/ Done(3) /\ Done(4) /\ SubmitPriority(5, 1, TRUE)
    \/ \E r \in ReqIds : LockGranted(r)
    \/ \E r \in ReqIds : PaceWake(r)
    \/ \E r \in ReqIds, o \in Outcomes : InvokeReturn(r, o)
    \/ \E r \in ReqIds : BackoffWake(r)
    \/ \E r \in ReqIds : RetryWake(r)
    \/ BatchPoll
    \/ BatchFlush
    \/ BatchLockGranted
    \/ BatchPaceWake
    \/ \E o \in Outcomes : BatchInvokeReturn(o)
    \/ BatchRetryWake
    \/ \E o \in Outcomes : BatchReinvokeReturn(o)
    \/ Tick(ScenarioHorizon)

SpecScenario == InitScenario /\ [][NextScenario]_vars

\* ---------------------------------------------------------------- lifecycle
AliveIds(t) == {x.id : x \in t.alive}

\* task.cancel() for a task that has not finished.
cancel(t, handle) ==
    IF handle \in AliveIds(t) THEN [t EXCEPT !.cancelled = @ \cup {handle}] ELSE t

\* shutdown(), lines 514-515: both handles are reset and the call returns.
ShutdownEnd(t) ==
    [t EXCEPT !.queue_task = NoTask, !.batch_task = NoTask, !.sd = "idle", !.last = "shutdown"]

\* shutdown(), lines 505-513 for the batch task: it is cancelled and awaited.
ShutdownBatch(t) ==
    IF t.batch_task = NoTask THEN ShutdownEnd(t)
    ELSE IF t.batch_task \in AliveIds(t)
         THEN [cancel(t, t.batch_task) EXCEPT !.sd = "await_batch"]
         ELSE ShutdownEnd(t)

\* shutdown(), lines 505-513 for the queue task, the first of the two.
ShutdownQueue(t) ==
    IF t.queue_task = NoTask THEN ShutdownBatch(t)
    ELSE IF t.queue_task \in AliveIds(t)
         THEN [cancel(t, t.queue_task) EXCEPT !.sd = "await_queue"]
         ELSE ShutdownBatch(t)

\* initialize() is called by the host.
Initialize ==
    /\ tasks.created + 2 <= MaxTasks
    /\ tasks' = initialize_tasks(tasks)
    /\ bp' = IF tasks'.batch_task # tasks.batch_task THEN initialize(bp) ELSE bp
    /\ UNCHANGED <<cfg, now, last_request_time, lock, response_cache, circuit, batch_queue, req, starts>>

\* shutdown() is called by the host, no other shutdown() being in progress.
Shutdown ==
    /\ tasks.sd = "idle"
    /\ tasks' = ShutdownQueue(tasks)
    /\ UNCHANGED <<cfg, now, last_request_time, lock, response_cache, circuit, batch_queue, req, bp, starts>>

\* (a lock that stays with an owner who left by an exception)
lock_exit_keeps(lk, owner) == lk

\* `async with self.lock`, lines 242 and 331, left by CancelledError: the
\* owner gives the lock up, or is withdrawn from those who wait for it.
lock_exit(lk, owner) == SelectSeq(lk, LAMBDA x : x # owner)

\* A cancelled task is resumed with CancelledError, which no `except
\* Exception` of its loop catches: it finishes, wherever it was suspended.
\* The batch task leaves `async with self.lock` on its way out, and the batch
\* it had taken from the queue, a local of _process_batches, goes with it.
TaskEnds(id) ==
    /\ id \in tasks.cancelled
    /\ \E x \in tasks.alive :
          /\ x.id = id
          /\ tasks' = [tasks EXCEPT !.alive = @ \ {x}, !.cancelled = @ \ {id}]
          /\ IF x.kind = "batch"
             THEN /\ bp' = [pc |-> "off", wake |-> 0, todo |-> <<>>, idx |-> 0, responses |-> <<>>]
                  /\ lock' = lock_exit(lock, BatchTask)
             ELSE UNCHANGED <<bp, lock>>
    /\ UNCHANGED <<cfg, now, last_request_time, response_cache, circuit, batch_queue, req, starts>>

\* The task shutdown() awaits has finished: shutdown() goes on.
ShutdownResume ==
    /\ \/ /\ tasks.sd = "await_queue"
          /\ tasks.queue_task \notin AliveIds(tasks)
          /\ tasks' = ShutdownBatch(tasks)
       \/ /\ tasks.sd = "await_batch"
          /\ tasks.batch_task \notin AliveIds(tasks)
          /\ tasks' = ShutdownEnd(tasks)
    /\ UNCHANGED <<cfg, now, last_request_time, lock, response_cache, circuit, batch_queue, req, bp, starts>>

\* The host's initialize() and shutdown() calls, with no request submitted.
NextLifecycle ==
    \/ Initialize
    \/ Shutdown
    \/ \E id \in 1..MaxTasks : TaskEnds(id)
    \/ ShutdownResume
    \/ Tick(Horizon)

SpecLifecycle == Init /\ [][NextLifecycle]_vars

\* Four concurrent submissions of the same message to the light model, the
\* clock running to the end of the cooldown.
NextFour == Step(1..(MaxReqs - 1), {1}, {FALSE}, GateHorizon)

SpecFour == Init /\ [][NextFour]_vars

\* Two concurrent priority submissions of any message list to the light
\* model.
NextFallback ==
    \/ \E r \in 1..(MaxReqs - 3), m \in AllMsgs : SubmitPriority(r, m, FALSE)
    \/ \E r \in 1..(MaxReqs - 3) : LockGranted(r)
    \/ \E r \in 1..(MaxReqs - 3) : PaceWake(r)
    \/ \E r \in 1..(MaxReqs - 3), o \in Outcomes : InvokeReturn(r, o)
    \/ \E r \in 1..(MaxReqs - 3) : BackoffWake(r)
    \/ \E r \in 1..(MaxReqs - 3) : RetryWake(r)
    \/ Tick(Horizon)

SpecFallback == Init /\ [][NextFallback]_vars

\* The task that awaits generate_response is cancelled by its host, as
\* asyncio.wait_for does when a deadline expires: CancelledError is raised at
\* the await the caller is suspended in.  No `except Exception` of
\* _make_request or generate_response catches it, `async with self.lock`
\* (line 331) is left on the way out, and the future a batched caller awaits
\* (line 468) is cancelled with it, its entry staying where it is.
Cancel(r) ==
    /\ req[r].pc \in {"lock", "pace", "invoke", "backoff", "retry", "queued"}
    /\ req' = [req EXCEPT ![r] = Finish(@, Raised(Exc("CancelledError", "")), "cancelled")]
    /\ lock' = lock_exit(lock, r)
    /\ UNCHANGED <<cfg, tasks, now, last_request_time, response_cache, circuit, batch_queue, bp, starts>>

\* The batch task runs: shutdown() has not cancelled it.
BatchRuns == tasks.batch_task \notin tasks.cancelled

\* The steps of the batch task while it runs.
BatchSteps ==
    \/ BatchPoll
    \/ BatchFlush
    \/ BatchLockGranted
    \/ BatchPaceWake
    \/ \E o \in Outcomes : BatchInvokeReturn(o)
    \/ BatchRetryWake
    \/ \E o \in Outcomes : BatchReinvokeReturn(o)

\* The steps of the callers in ids.
CallerSteps(ids, msgs, tiers) ==
    \/ \E r \in ids, m \in msgs, h \in tiers : SubmitPriority(r, m, h)
    \/ \E r \in ids : LockGranted(r)
    \/ \E r \in ids : PaceWake(r)
    \/ \E r \in ids, o \in Outcomes : InvokeReturn(r, o)
    \/ \E r \in ids : BackoffWake(r)
    \/ \E r \in ids : RetryWake(r)
    \/ \E r \in ids, m \in msgs, h \in tiers : SubmitBatch(r, m, h)

\* Two concurrent submissions of one message, to either model, whose callers
\* may be cancelled while they wait, with a host that calls shutdown() at any
\* time.
NextCancel ==
    \/ CallerSteps(1..(MaxReqs - 3), {1}, BOOLEAN)
    \/ \E r \in 1..(MaxReqs - 3) : Cancel(r)
    \/ BatchRuns /\ BatchSteps
    \/ Shutdown
    \/ \E id \in 1..MaxTasks : TaskEnds(id)
    \/ ShutdownResume
    \/ Tick(CancelHorizon)

SpecCancel == Init /\ [][NextCancel]_vars

\* Two concurrent submissions of one message, to either model, with a host
\* that calls shutdown() at any time.
NextShutdown ==
    \/ CallerSteps(1..(MaxReqs - 3), {1}, BOOLEAN)
    \/ BatchRuns /\ BatchSteps
    \/ Shutdown
    \/ \E id \in 1..MaxTasks : TaskEnds(id)
    \/ ShutdownResume
    \/ Tick(CancelHorizon)

SpecShutdown == Init /\ [][NextShutdown]_vars

\* ---------------------------------------------------------------- properties
RECURSIVE Pow(_, _)
Pow(b, n) == IF n = 0 THEN 1 ELSE b * Pow(b, n - 1)

QuotaFailed(r) == req[r].own.kind = "err" /\ QuotaWords[req[r].own.val]

\* C1: with priority submissions only, the start times of any two
\* consecutive model.ainvoke calls are at least min_interval apart, whatever
\* the outcomes of the calls are.
C1_PacingInvariant ==
    (\A r \in ReqIds : req[r].priority) =>
        (Len(starts) = 2 => starts[2] - starts[1] >= cfg.min_interval)

\* C6: generate_response never raises an error whose message is a quota or a
\* rate-limit error, nor a QuotaExceededError or CircuitBreakerError: in these
\* cases it returns a text.
C6_NeverRaisesForQuotaOrRateLimit ==
    \A r \in ReqIds :
        req[r].res.kind = "raise" =>
            /\ req[r].res.cls \notin {"QuotaExceededError", "CircuitBreakerError"}
            /\ ~QuotaWords[req[r].res.val]
            /\ ~RateLimitWords[req[r].res.val]

\* C7: a batched request whose own model.ainvoke succeeded is delivered the
\* text of that call, whatever happens to the other requests of its batch.
C7_BatchIsolation ==
    \A r \in ReqIds :
        (~req[r].priority /\ Done(r) /\ req[r].own.kind = "ok") =>
            req[r].res = Returned(req[r].own.val)

\* C8, as claimed: a priority submission causes at most max_retries + 1
\* model.ainvoke calls.
C8_AtMostMaxRetriesPlusOne ==
    \A r \in ReqIds :
        req[r].priority => req[r].invocations <= cfg.max_retries + 1

\* C8, amended: a priority submission causes at most (max_retries + 1)^2
\* model.ainvoke calls: generate_response runs _make_request up to
\* max_retries + 1 times, each making up to max_retries + 1 attempts.
C8_AtMostSquare ==
    \A r \in ReqIds :
        req[r].priority => req[r].invocations <= Pow(cfg.max_retries + 1, 2)

C8_Witness ==
    \E r \in ReqIds :
        /\ req[r].priority
        /\ req[r].invocations = Pow(cfg.max_retries + 1, 2)
        /\ req[r].failures = req[r].invocations

\* C9: in a priority submission, the sleep after the k-th rate-limit failure,
\* for k up to max_retries, is min(initial_backoff * backoff_factor^(k-1),
\* max_backoff).
C9_BackoffGrowth ==
    \A r \in ReqIds :
        (/\ req[r].priority
         /\ req[r].pc \in {"backoff", "retry"}
         /\ req[r].failures <= cfg.max_retries) =>
            /\ req[r].failures >= 1
            /\ req[r].slept = Min(cfg.initial_backoff * Pow(cfg.backoff_factor, req[r].failures - 1),
                                  cfg.max_backoff)
            /\ req[r].wake <= now + req[r].slept

C9_Witness ==
    \E r \in ReqIds :
        /\ req[r].pc = "backoff"
        /\ req[r].failures = cfg.max_retries
        /\ req[r].failures > 1
        /\ req[r].slept = cfg.max_backoff
        /\ cfg.initial_backoff * Pow(cfg.backoff_factor, req[r].failures - 1) > cfg.max_backoff

\* C10: a priority submission whose model.ainvoke fails with a quota error
\* ends there: no further attempt, no backoff sleep, one call if it was the
\* first attempt, and generate_response returns the fallback for its content.
C10_QuotaNotRetried ==
    \A r \in ReqIds :
        (req[r].priority /\ QuotaFailed(r)) =>
            /\ Done(r)
            /\ req[r].res = Returned(get_fallback_response(first_content(MessageLists[req[r].messages])))
            /\ req[r].invocations = req[r].failures + 1

C10_Witness ==
    \E r \in ReqIds :
        /\ req[r].priority /\ QuotaFailed(r) /\ Done(r)
        /\ req[r].invocations = 1
        /\ req[r].via = "fallback"

FallbackFor(r) ==
    Returned(get_fallback_response(first_content(MessageLists[req[r].messages])))

\* generate_response(priority=True) is called by r in this step.
Submits(r) == req[r].pc = "new" /\ req'[r].pc # "new" /\ req'[r].priority

\* r calls _make_request in this step: on submission, or after the backoff
\* sleep of generate_response.
Enters(r) == Submits(r) \/ (req[r].pc = "retry" /\ req'[r].pc # "retry")

\* The batch task takes a batch in this step.
Flushes == bp.pc = "timer" /\ bp'.pc # "timer"

HoldsOrAwaitsLock == {"lock", "pace", "invoke"}

\* C2, as claimed: a submission, priority or batched, made while the circuit
\* is open within its cooldown (for a priority submission also: made with the
\* threshold reached, so that its own check opens the circuit) never invokes
\* the backend and, once answered, has the fallback text.
C2_GatedWhenSubmitted ==
    \A r \in ReqIds :
        (\/ req[r].sub_phase = "open"
         \/ req[r].priority /\ req[r].sub_phase \in Gated) =>
            /\ req[r].invocations = 0
            /\ Done(r) => req[r].res = FallbackFor(r)

\* C2, amended: a priority submission made, and a batched submission whose
\* partition is dispatched, while the circuit is open within its cooldown is
\* answered with the fallback text at once and never invokes the backend.
C2_GatedWhenChecked ==
    \A r \in ReqIds :
        req[r].chk_phase \in Gated =>
            /\ Done(r)
            /\ req[r].via = "fallback"
            /\ req[r].res = FallbackFor(r)
            /\ req[r].invocations = 0

C2_Witness ==
    /\ circuit.open /\ now - circuit.opened_at <= cfg.circuit_breaker_timeout
    /\ \E r \in ReqIds :
          /\ req[r].priority /\ req[r].chk_phase \in Gated
          /\ Done(r) /\ req[r].via = "fallback" /\ req[r].invocations = 0
    /\ \E r \in ReqIds :
          /\ ~req[r].priority /\ req[r].chk_phase = "open"
          /\ Done(r) /\ req[r].via = "fallback" /\ req[r].invocations = 0

\* C3: a submission (a batch flush) that finds the circuit open with the
\* cooldown elapsed closes it, resets the count to 0 and goes on to the lock
\* and the backend unless the cache answers; whoever is on that way leaves it
\* only by invoking the backend; within the cooldown the circuit stays open.
C3_Step ==
    /\ \A r \in ReqIds :
          (Submits(r) /\ Phase(circuit) = "expired") =>
              /\ ~circuit'.open
              /\ circuit'.quota_error_count = 0
              /\ \/ req'[r].pc \in HoldsOrAwaitsLock
                 \/ req'[r].pc = "done" /\ req'[r].via = "cache"
    /\ (Flushes /\ Phase(circuit) = "expired") =>
          /\ ~circuit'.open
          /\ circuit'.quota_error_count = 0
          /\ bp'.pc \in HoldsOrAwaitsLock
    /\ \A r \in ReqIds :
          req[r].pc \in {"lock", "pace"} => req'[r].pc \in HoldsOrAwaitsLock
    /\ bp.pc \in {"lock", "pace"} => bp'.pc \in HoldsOrAwaitsLock
    /\ Phase(circuit) = "open" => circuit'.open

C3_CooldownReset ==
    /\ [](\A r \in ReqIds :
            (req[r].priority /\ req[r].sub_phase = "expired" /\ Done(r)) =>
                (req[r].invocations >= 1 \/ req[r].via = "cache"))
    /\ [][C3_Step]_vars

C3_Witness ==
    \E r \in ReqIds :
        /\ req[r].priority /\ req[r].sub_phase = "expired"
        /\ req[r].pc = "invoke" /\ req[r].invocations = 1
        /\ ~circuit.open /\ circuit.quota_error_count = 0
        /\ now - circuit.opened_at > cfg.circuit_breaker_timeout
        /\ circuit.opened_at >= Epoch

SameKey(a, b) == a.messages = b.messages /\ a.use_heavy_model = b.use_heavy_model

\* C4: a priority submission made, with the circuit closed, less than
\* cache_ttl after an identical priority submission returned the text of its
\* one backend call, invokes the backend no more and returns the same text.
C4_Step ==
    \A r1, r2 \in ReqIds :
        (/\ r1 # r2
         /\ Done(r1) /\ req[r1].priority /\ req[r1].via = "backend"
         /\ req[r1].invocations = 1
         /\ Submits(r2)
         /\ SameKey(req[r1], req'[r2])
         /\ now - req[r1].t_ok < cfg.cache_ttl
         /\ Phase(circuit) = "closed"
         /\ \A q \in ReqIds \ {r1} : req[q].pc = "new") =>
            /\ req'[r2].pc = "done"
            /\ req'[r2].res = req[r1].res
            /\ req'[r2].invocations = 0

C4_CacheIdempotence == [][C4_Step]_vars

\* C5: a lookup of an entry of age >= cache_ttl is a miss that deletes the
\* entry, and the caller goes on to the lock and the backend; a lookup at a
\* smaller age returns the stored text and leaves the cache as it is.
C5_Lookup ==
    \A key \in DOMAIN response_cache :
        LET look == get_cached_response(response_cache, key, now) IN
        IF now - response_cache[key].timestamp >= cfg.cache_ttl
        THEN look.ret = None /\ key \notin DOMAIN look.cache
        ELSE look.ret = Some(response_cache[key].response) /\ look.cache = response_cache

C5_Step ==
    \A r \in ReqIds :
        (Enters(r) /\ Phase(circuit) \in {"closed", "expired"}) =>
            LET key == <<req'[r].messages, req'[r].use_heavy_model>> IN
            key \in DOMAIN response_cache =>
                IF now - response_cache[key].timestamp >= cfg.cache_ttl
                THEN /\ key \notin DOMAIN response_cache'
                     /\ req'[r].pc \in HoldsOrAwaitsLock
                ELSE /\ response_cache' = response_cache
                     /\ response_cache[key].response # "" =>
                           /\ req'[r].pc = "done"
                           /\ req'[r].via = "cache"
                           /\ req'[r].res = Returned(response_cache[key].response)
                           /\ req'[r].invocations = req[r].invocations

PriorityQuotaFailure(r) ==
    /\ req[r].pc = "invoke" /\ req'[r].pc # "invoke"
    /\ req'[r].own.kind = "err" /\ QuotaWords[req'[r].own.val]

\* The model.ainvoke the batch task awaits (the first call for an item, or the
\* call after a rate-limit error) raises a quota error in this step.
BatchQuotaFailure ==
    /\ bp.pc \in {"invoke", "reinvoke"}
    /\ LET r == Head(bp.todo).items[bp.idx]
       IN  /\ req'[r].own.kind = "err" /\ QuotaWords[req'[r].own.val]
           /\ bp' # bp

\* C11: each quota failure of a model.ainvoke call advances _quota_error_count
\* by exactly one.
C11_Step ==
    ((\E r \in ReqIds : PriorityQuotaFailure(r)) \/ BatchQuotaFailure) =>
        circuit'.quota_error_count = circuit.quota_error_count + 1

C11_CountAdvancesByOne == [][C11_Step]_vars

\* Who awaits model.ainvoke: callers in _make_request, and the batch task.
InFlight ==
    {r \in ReqIds : req[r].pc = "invoke"}
      \cup (IF bp.pc \in {"invoke", "reinvoke"} THEN {BatchTask} ELSE {})

\* C12: whoever awaits model.ainvoke holds the lock, so at most one call is in
\* flight at any moment.
C12_OneInFlight ==
    /\ \A t \in InFlight : lock # <<>> /\ Head(lock) = t
    /\ Cardinality(InFlight) <= 1

C12_Witness ==
    /\ Cardinality(InFlight) = 1
    /\ Len(lock) = 3
    /\ bp.pc = "lock"
    /\ \E r \in ReqIds : req[r].pc = "lock"

\* The requests the batch task takes when it takes a batch.
CurrentBatch ==
    {batch_queue[i] : i \in 1..Min(cfg.max_batch_size, Len(batch_queue))}

AnsweredByFallback(r) ==
    /\ req'[r].pc = "done" /\ req'[r].via = "fallback"
    /\ req'[r].res = Returned(Fallback[req'[r].messages])
    /\ req'[r].invocations = req[r].invocations

\* C13: a priority caller that enters _make_request, and a batch that is
\* flushed, with the circuit open within its cooldown is answered with the
\* fallback text in that step; the cache, the lock and the record of backend
\* calls stay as they are, whatever the cache holds.
C13_Step ==
    /\ \A r \in ReqIds :
          (Enters(r) /\ Phase(circuit) = "open") =>
              /\ AnsweredByFallback(r)
              /\ UNCHANGED <<response_cache, lock, starts, last_request_time>>
    /\ (Flushes /\ Phase(circuit) = "open") =>
          /\ \A r \in CurrentBatch : AnsweredByFallback(r)
          /\ UNCHANGED <<response_cache, lock, starts, last_request_time>>

C13_OpenCircuitTouchesNothing == [][C13_Step]_vars

\* r was answered with the fallback text while the cache held a fresh,
\* non-empty entry for its key.
FallbackDespiteEntry(r) ==
    LET key == get_cache_key(req[r].messages, req[r].use_heavy_model) IN
    /\ req[r].chk_phase = "open" /\ Done(r) /\ req[r].via = "fallback"
    /\ req[r].invocations = 0
    /\ key \in DOMAIN response_cache
    /\ now - response_cache[key].timestamp < cfg.cache_ttl
    /\ response_cache[key].response # ""
    /\ circuit.open /\ now - circuit.opened_at <= cfg.circuit_breaker_timeout

C13_Witness == \E r \in ReqIds : req[r].priority /\ FallbackDespiteEntry(r)

C13_WitnessBatched == \E r \in ReqIds : ~req[r].priority /\ FallbackDespiteEntry(r)

\* C14: every caller of generate_response(priority=False) is answered in the
\* end, with a text or an error, and the answer it was given stays the one it
\* has: none of several concurrent submissions is lost or answered twice.
C14_EveryBatchedAnswered ==
    /\ \A r \in ReqIds : (req[r].pc = "queued") ~> Done(r)
    /\ [][\A r \in ReqIds : Done(r) => req'[r] = req[r]]_vars

C14_Witness ==
    /\ \A r \in LiveIds : ~req[r].priority /\ Done(r)
    /\ \E r \in LiveIds : req[r].via = "backend" /\ req[r].failures = 1
    /\ batch_queue = <<>> /\ bp.pc = "poll"

\* The first submission of the scenario, answered by its first backend call,
\* made one call.
C15_FirstInvokesOnce ==
    (Done(1) /\ req[1].via = "backend" /\ req[1].failures = 0) => req[1].invocations = 1

\* The second, identical submission is answered from the cache, with the text
\* of the first and no backend call.
C15_SecondFromCache ==
    (Submits(2) /\ req[1].via = "backend" /\ now - req[1].t_ok < 2) =>
        /\ req'[2].pc = "done" /\ req'[2].via = "cache"
        /\ req'[2].res = req[1].res
        /\ req'[2].invocations = 0

\* After two quota failures in a row (of two submissions whose only backend
\* call it was) the third, distinct submission is answered with the scheduling
\* fallback and no backend call.
C15_ThirdGetsFallback ==
    (/\ Submits(5)
     /\ QuotaFailed(3) /\ req[3].invocations = 1
     /\ QuotaFailed(4) /\ req[4].invocations = 1) =>
        /\ req'[5].pc = "done" /\ req'[5].via = "fallback"
        /\ req'[5].res = Returned(FallbackSchedule)
        /\ req'[5].invocations = 0

\* C15: the end-to-end scenario: the first "Schedule a sync" makes one backend
\* call, the second is served from the cache without one, and after two
\* quota failures in a row a third, distinct submission is answered with the
\* scheduling fallback without one.
C15_EndToEnd ==
    /\ []C15_FirstInvokesOnce
    /\ [][C15_SecondFromCache]_vars
    /\ [][C15_ThirdGetsFallback]_vars

C15_FirstAndThird ==
    /\ []C15_FirstInvokesOnce
    /\ [][C15_ThirdGetsFallback]_vars

C15_SecondFromCacheUnlessEmpty ==
    [][req[1].res.val # "" => C15_SecondFromCache]_vars

C15_Reached ==
    /\ Done(1) /\ req[1].via = "backend" /\ req[1].invocations = 1
    /\ Done(2) /\ req[2].via = "cache"
    /\ QuotaFailed(3) /\ req[3].invocations = 1
    /\ QuotaFailed(4) /\ req[4].invocations = 1
    /\ Done(5) /\ req[5].via = "fallback"

\* C16: with max_retries = 1, a priority generate_response whose first two
\* model.ainvoke calls fail with a rate-limit error and whose third succeeds
\* returns the third call's text after exactly 3 calls, having slept backoffs
\* of at least initial_backoff + initial_backoff * backoff_factor in total.
C16_ThreeAttemptsBackoffTotal ==
    \A r \in ReqIds :
        (/\ req[r].priority /\ Done(r) /\ cfg.max_retries = 1
         /\ req[r].failures = 2 /\ req[r].own.kind = "ok") =>
            /\ req[r].invocations = 3
            /\ req[r].res = Returned(req[r].own.val)
            /\ req[r].slept_total >= cfg.initial_backoff + cfg.initial_backoff * cfg.backoff_factor

\* The same, but for the backoffs.
C16_ThreeAttempts ==
    \A r \in ReqIds :
        (/\ req[r].priority /\ Done(r) /\ cfg.max_retries = 1
         /\ req[r].failures = 2 /\ req[r].own.kind = "ok") =>
            /\ req[r].invocations = 3
            /\ req[r].res = Returned(req[r].own.val)
            /\ req[r].slept_total = 2 * cfg.initial_backoff

\* The tasks of a kind that have not finished.
Loops(kind) == {x \in tasks.alive : x.kind = kind}

\* C17: there is never more than one batch loop nor more than one queue
\* loop; when initialize() was the last call to return and no shutdown() is
\* in progress, one loop of each kind runs, uncancelled; when shutdown() was
\* the last call to return, none runs and both handles are None.
C17_Lifecycle ==
    /\ Cardinality(Loops("batch")) <= 1
    /\ Cardinality(Loops("queue")) <= 1
    /\ (tasks.sd = "idle" /\ tasks.last = "initialize") =>
          /\ Loops("queue") = {[id |-> tasks.queue_task, kind |-> "queue"]}
          /\ Loops("batch") = {[id |-> tasks.batch_task, kind |-> "batch"]}
          /\ tasks.cancelled = {}
          /\ bp.pc # "off"
    /\ (tasks.sd = "idle" /\ tasks.last = "shutdown") =>
          /\ tasks.alive = {}
          /\ tasks.queue_task = NoTask /\ tasks.batch_task = NoTask
          /\ bp.pc = "off"

C17_Witness ==
    /\ tasks.sd = "idle" /\ tasks.last = "initialize"
    /\ tasks.created = 4
    /\ Cardinality(tasks.alive) = 2


\* The last model.ainvoke of priority submission r raised an error that is
\* neither a quota nor a rate-limit error.
OtherFailed(r) ==
    /\ req[r].priority
    /\ req[r].own.kind = "err"
    /\ ~QuotaWords[req[r].own.val]
    /\ ~RateLimitWords[req[r].own.val]

\* C18: once a priority submission's model.ainvoke has raised an error that
\* is neither a quota nor a rate-limit error, the submission is over: its
\* caller was raised that very error, no sleep and no further model.ainvoke
\* followed, and when it was the submission's first failure, it made one call
\* and slept no backoff at all.
C18_OtherPropagatesAtOnce ==
    \A r \in ReqIds :
        OtherFailed(r) =>
            /\ Done(r)
            /\ req[r].res = Raised(Exc("Exception", req[r].own.val))
            /\ req[r].via = "error"
            /\ req[r].invocations = req[r].failures + 1
            /\ req[r].failures = 0 => (req[r].invocations = 1 /\ req[r].slept_total = 0)

C18_Witness ==
    \E r \in ReqIds :
        /\ OtherFailed(r) /\ Done(r)
        /\ req[r].invocations = 1
        /\ req[r].res.kind = "raise" /\ req[r].res.val = "boom"


\* r's model.ainvoke, awaited in _make_request, raises an error that is not a
\* quota error in this step.
PriorityOtherFailure(r) ==
    /\ req[r].pc = "invoke" /\ req'[r].pc # "invoke"
    /\ req'[r].own.kind = "err" /\ ~QuotaWords[req'[r].own.val]

\* The same for the model.ainvoke the batch task awaits.
BatchOtherFailure ==
    /\ bp.pc \in {"invoke", "reinvoke"}
    /\ LET r == Head(bp.todo).items[bp.idx]
       IN  /\ req'[r].own.kind = "err" /\ ~QuotaWords[req'[r].own.val]
           /\ bp' # bp

\* C19: a model.ainvoke failure that is a rate-limit error (retried or not)
\* or any other error that is not a quota error leaves _quota_error_count,
\* _circuit_breaker_open and _circuit_breaker_opened_at as they were.  (When
\* the failure ends a partition of a batch and another partition follows, the
\* batch task goes on to that partition's circuit check without suspending:
\* the fields are then as this check alone makes them.)
C19_Step ==
    /\ (\E r \in ReqIds : PriorityOtherFailure(r)) => circuit' = circuit
    /\ BatchOtherFailure =>
          \/ circuit' = circuit
          \/ /\ Len(bp.todo) > 1
             /\ circuit' = check_circuit_breaker(circuit, now).cb

C19_OnlyQuotaMovesCircuit == [][C19_Step]_vars

\* A rate-limit failure is being retried (its caller holds the lock, so no
\* other call was made since) and the count it met was not zero.
C19_Witness ==
    /\ circuit.quota_error_count > 0
    /\ \E r \in ReqIds :
          /\ req[r].priority /\ req[r].pc = "backoff"
          /\ RateLimitWords[req[r].own.val] /\ ~QuotaWords[req[r].own.val]


\* Every text the backend raises gets the class its indicators call for.
ClassesByIndicators ==
    \A e \in BackendErrors :
        LET q  == HasIndicator(e, quota_indicators)
            rl == HasIndicator(e, rate_limit_indicators)
        IN  Classify(e) = IF q THEN "Quota" ELSE IF rl THEN "RateLimit" ELSE "Other"

\* C20: an error whose lowered text holds a quota indicator, a rate-limit
\* indicator beside it or not, is a quota error and no rate-limit error: in
\* _make_request it ends the submission with the fallback text, with no
\* retry, and _quota_error_count grows; a text with rate-limit indicators only
\* is a rate-limit error, which is retried or raised; a text with neither is
\* raised at once.
C20_Step ==
    /\ ClassesByIndicators
    /\ \A r \in ReqIds :
          (req[r].pc = "invoke" /\ req'[r].pc # "invoke" /\ req'[r].own.kind = "err") =>
             LET e == req'[r].own.val IN
             /\ QuotaWords[e] =>
                   /\ req'[r].pc = "done" /\ req'[r].via = "fallback"
                   /\ req'[r].invocations = req[r].invocations
                   /\ circuit'.quota_error_count > circuit.quota_error_count
             /\ (~QuotaWords[e] /\ RateLimitWords[e]) =>
                   /\ \/ req'[r].pc \in {"backoff", "retry"}
                      \/ req'[r].pc = "done" /\ req'[r].via = "error"
                   /\ retries_left(req[r].attempt) => req'[r].pc = "backoff"
                   /\ circuit' = circuit
             /\ (~QuotaWords[e] /\ ~RateLimitWords[e]) =>
                   /\ req'[r].pc = "done" /\ req'[r].via = "error"
                   /\ circuit' = circuit

C20_QuotaPrecedence == [][C20_Step]_vars

\* A priority submission's only model.ainvoke raised a text with a quota and
\* a rate-limit indicator, and its caller has the fallback text.
C20_Witness ==
    \E r \in ReqIds :
        /\ req[r].priority /\ Done(r) /\ req[r].via = "fallback"
        /\ req[r].own.kind = "err"
        /\ QuotaWords[req[r].own.val] /\ RateLimitWords[req[r].own.val]
        /\ req[r].invocations = 1 /\ req[r].slept_total = 0
        /\ circuit.quota_error_count > 0


\* The keys of two requests are equal exactly when their message lists and
\* their tiers are.
KeysTellRequestsApart ==
    \A m1, m2 \in AllMsgs : \A h1, h2 \in BOOLEAN :
        (get_cache_key(m1, h1) = get_cache_key(m2, h2))
            <=> (MessageLists[m1] = MessageLists[m2] /\ h1 = h2)

\* C21: equal messages and equal tier give the same cache key, a different
\* tier gives another one, and a text a submission is given from the cache is
\* the text the backend gave to a submission with the same messages and the
\* same tier.
C21_Step ==
    /\ KeysTellRequestsApart
    /\ \A r \in ReqIds :
          (req[r].pc # "done" /\ req'[r].pc = "done" /\ req'[r].via = "cache") =>
              \E q \in ReqIds \ {r} :
                  /\ SameKey(req[q], req'[r])
                  /\ req[q].own = [kind |-> "ok", val |-> req'[r].res.val]

C21_KeyHoldsTier == [][C21_Step]_vars

\* After a light submission was answered by the backend, the same messages
\* submitted for the heavy model, with the light entry still in the cache,
\* went to the backend too.
C21_Witness ==
    \E r1, r2 \in ReqIds :
        /\ Done(r1) /\ req[r1].via = "backend" /\ ~req[r1].use_heavy_model
        /\ Done(r2) /\ req[r2].via = "backend" /\ req[r2].use_heavy_model
        /\ req[r1].messages = req[r2].messages
        /\ req[r1].priority /\ req[r2].priority
        /\ req[r2].sub_phase = "closed"
        /\ req[r2].t_ok > req[r1].t_ok /\ req[r2].t_ok - req[r1].t_ok < cfg.cache_ttl
        /\ get_cache_key(req[r1].messages, FALSE) \in DOMAIN response_cache
        /\ get_cache_key(req[r2].messages, TRUE) \in DOMAIN response_cache


\* w is one of the words of s, the words being what spaces separate.
HasWord(s, w) ==
    \E i \in 1..(Len(s) - Len(w) + 1) :
        /\ SubSeq(s, i, i + Len(w) - 1) = w
        /\ (i = 1 \/ SubSeq(s, i - 1, i - 1) = " ")
        /\ (i + Len(w) - 1 = Len(s) \/ SubSeq(s, i + Len(w), i + Len(w)) = " ")

\* The reply by keyword: the first of the three kinds of keyword that the
\* content has a word of, whatever its case, names the reply.
ReplyByKeyword(message_content) ==
    LET content_lower == lower(message_content)
        any(words) == \E word \in words : HasWord(content_lower, word)
    IN  IF any({"schedule", "meeting", "book", "appointment"}) THEN FallbackSchedule
        ELSE IF any({"hello", "hi", "start", "help"}) THEN FallbackGreeting
        ELSE IF any({"cancel", "reschedule", "change"}) THEN FallbackChange
        ELSE FallbackGeneric

RepliesByKeyword == [m \in AllMsgs |-> ReplyByKeyword(first_content(MessageLists[m]))]

\* C22: the fallback text a submission is given is the reply its first
\* content segment's keywords name (the scheduling, the greeting or the
\* cancellation reply), and the generic reply when it has no keyword or no
\* content segment.
C22_FallbackByKeyword ==
    \A r \in ReqIds :
        (Done(r) /\ req[r].via = "fallback") =>
            req[r].res = Returned(RepliesByKeyword[req[r].messages])

\* The same, for the contents none of whose words holds a keyword of another
\* kind inside it.
C22_FallbackByKeywordApart ==
    \A r \in ReqIds :
        (Done(r) /\ req[r].via = "fallback" /\ req[r].messages # 6) =>
            req[r].res = Returned(RepliesByKeyword[req[r].messages])

\* Every reply was given: the cancellation reply for a content behind a
\* segment without content, the generic one for a list with no content.
C22_Reached ==
    /\ Done(1) /\ req[1].via = "fallback" /\ req[1].messages = 3
    /\ req[1].res.val = FallbackChange
    /\ Done(2) /\ req[2].via = "fallback" /\ req[2].messages = 5
    /\ req[2].res.val = FallbackGeneric


\* C23: while _quota_error_count has reached the threshold, or the circuit
\* is open within its cooldown, no model.ainvoke is started, for any
\* submission: not for one that passed its circuit check before either.
C23_Step ==
    Phase(circuit) \in Gated =>
        \A r \in ReqIds : req'[r].invocations = req[r].invocations

C23_NoInvocationWhileTripped == [][C23_Step]_vars

\* The same for the submissions that meet the circuit in that state at their
\* own check.
C23_CheckedWhileTripped ==
    \A r \in ReqIds :
        (req[r].chk_phase \in Gated /\ req[r].sub_phase \in Gated) => req[r].invocations = 0


\* The text the cache holds for r's key, when it holds one that is not
\* expired and not empty.
FreshEntry(r) ==
    LET key == get_cache_key(req[r].messages, req[r].use_heavy_model)
    IN  /\ key \in DOMAIN response_cache
        /\ now - response_cache[key].timestamp < cfg.cache_ttl
        /\ response_cache[key].response # ""

\* C24: of two identical priority submissions that overlap, one invokes the
\* backend and the other is given the same text with no call of its own: no
\* priority submission awaits model.ainvoke while the cache holds an
\* unexpired text for its key.
C24_OverlapInvokesOnce ==
    \A r \in ReqIds :
        (req[r].priority /\ req[r].pc = "invoke") => ~FreshEntry(r)

\* The same for the submissions made when no identical one is on its way: a
\* priority submission that found no other at the lock or at the backend.
C24_Step ==
    \A r \in ReqIds :
        (req[r].pc = "new" /\ req'[r].pc \in {"pace", "invoke"} /\ req'[r].priority) =>
            ~FreshEntry(r)'

C24_SequentialInvokesOnce == [][C24_Step]_vars


\* C25: when the batch task awaits the first model.ainvoke of the second or
\* a later item of a partition, that call started at least min_interval after
\* the call before it, which was the preceding item's.
C25_ItemsPaced ==
    (bp.pc = "invoke" /\ bp.idx >= 2) =>
        starts[2] - starts[1] >= cfg.min_interval

\* The same for the first item of a partition, which _wait_for_rate_limit
\* holds back until min_interval after the last success.
C25_FirstItemPaced ==
    (bp.pc = "invoke" /\ bp.idx = 1) => now - last_request_time >= cfg.min_interval


\* The batched request whose model.ainvoke the batch task awaits.
BatchItem == Head(bp.todo).items[bp.idx]

\* C26: the batch task awaits model.ainvoke for no item whose key has an
\* unexpired text in the cache, and the text of a call that succeeds for an
\* item is in the cache, under the item's key, when the call has returned.
C26_Step ==
    bp.pc \in {"invoke", "reinvoke"} =>
        /\ ~FreshEntry(BatchItem)
        /\ (bp' # bp /\ req'[BatchItem].own.kind = "ok") =>
              LET key == get_cache_key(req[BatchItem].messages, req[BatchItem].use_heavy_model)
              IN  /\ key \in DOMAIN response_cache'
                  /\ response_cache'[key].response = req'[BatchItem].own.val

C26_BatchThroughCache == [][C26_Step]_vars

\* What the batch path has of the priority path: the circuit check, made for
\* each partition when it is dispatched.
C26_BatchThroughCircuit ==
    \A r \in ReqIds :
        (~req[r].priority /\ req[r].chk_phase \in Gated) =>
            (Done(r) /\ req[r].via = "fallback" /\ req[r].invocations = 0)


\* C27: a batched item whose model.ainvoke raises a rate-limit error is
\* retried as a priority request is: the batch task sleeps
\* min(backoff, max_backoff), backoff starting at initial_backoff, and a
\* retry that fails is classified: a quota error is counted in
\* _quota_error_count and ends the item with the fallback text, a rate-limit
\* error is retried while attempts are left, any other error is raised.
C27_Step ==
    /\ (bp.pc = "invoke" /\ bp'.pc = "rl_sleep") =>
          bp'.wake = now + wait_time(cfg.initial_backoff)
    /\ (bp.pc = "reinvoke" /\ bp' # bp /\ req'[BatchItem].own.kind = "err") =>
          LET e == req'[BatchItem].own.val IN
          /\ QuotaWords[e] =>
                /\ circuit'.quota_error_count = circuit.quota_error_count + 1
                /\ req'[BatchItem].pc = "done" /\ req'[BatchItem].via = "fallback"
          /\ (~QuotaWords[e] /\ RateLimitWords[e] /\ retries_left(1)) =>
                bp'.pc = "rl_sleep"
          /\ (~QuotaWords[e] /\ ~RateLimitWords[e]) =>
                /\ req'[BatchItem].pc = "done" /\ req'[BatchItem].via = "error"
                /\ circuit'.quota_error_count = circuit.quota_error_count

C27_BatchRetryPolicy == [][C27_Step]_vars

\* What the batch task does: one retry after a sleep of min_interval, and the
\* retry's error, whatever it is, raised to every caller of the partition
\* with the circuit's count as it was.
C27_OneRetryStep ==
    /\ (bp.pc = "invoke" /\ bp'.pc = "rl_sleep") => bp'.wake = now + cfg.min_interval
    /\ (bp.pc = "reinvoke" /\ bp' # bp /\ req'[BatchItem].own.kind = "err") =>
          /\ req'[BatchItem].pc = "done" /\ req'[BatchItem].via = "error"
          /\ req'[BatchItem].invocations = 2
          /\ circuit'.quota_error_count = circuit.quota_error_count

C27_OneUnclassifiedRetry == [][C27_OneRetryStep]_vars


\* The batch task is inside the `async with self.lock` of
\* _make_batch_request: at _wait_for_rate_limit, at a model.ainvoke or at the
\* sleep between the two calls for an item.
InPartition == bp.pc \in {"pace", "invoke", "rl_sleep", "reinvoke"}

\* C28: from the first item of a partition to its last the batch task holds
\* the lock, and no priority request starts or awaits a model.ainvoke.
C28_Step ==
    InPartition =>
        /\ lock # <<>> /\ Head(lock) = BatchTask
        /\ \A r \in ReqIds :
              req[r].priority =>
                  /\ req[r].pc \notin {"pace", "invoke", "backoff"}
                  /\ req'[r].invocations = req[r].invocations

C28_LockHeldThroughPartition == [][C28_Step]_vars

\* The batch task awaits the call for the second item of a partition while a
\* priority request, submitted since the partition began, waits for the lock.
C28_Witness ==
    /\ bp.pc = "invoke" /\ bp.idx = 2
    /\ \E r \in ReqIds :
          /\ req[r].priority /\ req[r].pc = "lock" /\ req[r].invocations = 0
          /\ lock = <<BatchTask, r>>


\* Submissions are numbered in the order they are made.
RECURSIVE Ascending(_)
Ascending(items) ==
    Len(items) < 2 \/ (items[1] < items[2] /\ Ascending(Tail(items)))

\* C29: the items of a batch are invoked in the order of their submission:
\* the partition the batch task is at holds its items in that order, and no
\* item still to come in the batch was submitted before one of them.
C29_BatchFifo ==
    bp.todo # <<>> =>
        /\ Ascending(Head(bp.todo).items)
        /\ \A i \in 2..Len(bp.todo) :
              \A p \in Items(Head(bp.todo)), q \in Items(bp.todo[i]) : p < q

\* C29, amended: the items of a batch for the light model are invoked in
\* the order of their submission, then those for the heavy model in the
\* order of theirs.
C29_FifoWithinTier ==
    /\ \A i \in 1..Len(bp.todo) :
          /\ Ascending(bp.todo[i].items)
          /\ \A r \in Items(bp.todo[i]) : req[r].use_heavy_model = bp.todo[i].heavy
    /\ Len(bp.todo) <= 2
    /\ Len(bp.todo) = 2 => (~bp.todo[1].heavy /\ bp.todo[2].heavy)

\* A light item is invoked before the heavy item submitted before it.
C29_Witness ==
    /\ bp.pc = "invoke" /\ Len(bp.todo) = 2
    /\ \E p \in Items(bp.todo[1]), q \in Items(bp.todo[2]) :
          q < p /\ req[p].invocations = 1 /\ req[q].invocations = 0


\* The requests of the partitions the batch task has taken and not finished.
InTodo == UNION {Items(bp.todo[i]) : i \in 1..Len(bp.todo)}

InQueue == {batch_queue[i] : i \in 1..Len(batch_queue)}

\* C30: a flush takes the first max_batch_size items of the queue, or all
\* when there are fewer, and leaves the others as they were queued; any other
\* step leaves the queue alone or appends the request submitted; and a batched
\* request is at any moment at one place only: once in the queue, or in one
\* partition the batch task has taken, or answered.
C30_Step ==
    /\ IF Flushes
       THEN LET n == Min(cfg.max_batch_size, Len(batch_queue))
            IN  /\ batch_queue' = SubSeq(batch_queue, n + 1, Len(batch_queue))
                /\ \A i \in 1..n : req'[batch_queue[i]].pc = "done" \/ batch_queue[i] \in InTodo'
                /\ \A r \in ReqIds : r \in InTodo' => \E i \in 1..n : batch_queue[i] = r
       ELSE \/ batch_queue' = batch_queue
            \/ \E r \in ReqIds :
                  /\ req[r].pc = "new" /\ req'[r].pc = "queued"
                  /\ batch_queue' = Append(batch_queue, r)
    /\ \A r \in ReqIds :
          req[r].pc = "queued" =>
              /\ (r \in InQueue) # (r \in InTodo)
              /\ Cardinality({i \in 1..Len(batch_queue) : batch_queue[i] = r}) <= 1
              /\ Cardinality({i \in 1..Len(bp.todo) : r \in Items(bp.todo[i])}) <= 1
    /\ \A r \in InQueue \cup InTodo : req[r].pc = "queued"

C30_EachItemFlushedOnce == [][C30_Step]_vars

\* A first flush took two items and left the third, submitted while the
\* batch task was asleep or at the backend; a later flush took it.
C30_Witness ==
    /\ \E r1, r2, r3 \in ReqIds :
          /\ r1 < r2 /\ r2 < r3
          /\ Done(r1) /\ Done(r2) /\ ~req[r1].priority /\ ~req[r2].priority
          /\ req[r1].invocations = 1 /\ req[r2].invocations = 1
          /\ req[r3].pc = "queued" /\ bp.pc = "invoke" /\ BatchItem = r3
    /\ batch_queue = <<>>


\* C31: a batch is taken when max_batch_size requests are queued, without
\* the rest of batch_timeout being waited for: no time passes while the batch
\* task sleeps out batch_timeout with that many requests in the queue.
C31_Step ==
    (bp.pc = "timer" /\ now < bp.wake /\ Len(batch_queue) >= cfg.max_batch_size) =>
        now' = now

C31_FlushOnSize == [][C31_Step]_vars

\* A batch is taken once batch_timeout has passed since the batch task found
\* the queue not empty, and not before.
C31_TimeoutStep ==
    Flushes => (now >= bp.wake /\ batch_queue # <<>>)

C31_FlushOnTimeout == [][C31_TimeoutStep]_vars


\* The holder of the lock takes a step.
HolderActs ==
    /\ lock # <<>>
    /\ IF Head(lock) = BatchTask THEN bp' # bp ELSE req'[Head(lock)] # req[Head(lock)]

\* C32: last_request_time, _quota_error_count, _circuit_breaker_open and
\* _circuit_breaker_opened_at are written by the holder of the lock only.
C32_Step ==
    (circuit' # circuit \/ last_request_time' # last_request_time) => HolderActs

C32_WritesUnderLock == [][C32_Step]_vars

\* The same for last_request_time alone.
C32_PacingStep ==
    last_request_time' # last_request_time => HolderActs

C32_PacingWrittenUnderLock == [][C32_PacingStep]_vars


\* The owners of the lock: who holds it and who waits for it.
LockOwners == {lock[i] : i \in DOMAIN lock}

\* C33: when a priority submission or a batch partition flush has ended, by a
\* response, a quota error, rate-limit retries exhausted, another error or the
\* cancellation of its task, it is not an owner of the pacing lock: no caller
\* that has finished, sleeps between two _make_request calls or awaits a
\* future, and no batch task between two partitions or ended, holds the lock
\* or waits for it, and nobody owns it twice.
C33_LockFreedOnEveryExit ==
    /\ \A r \in ReqIds : req[r].pc \in {"new", "retry", "queued", "done"} => r \notin LockOwners
    /\ bp.pc \in {"off", "poll", "timer"} => BatchTask \notin LockOwners
    /\ \A i, j \in DOMAIN lock : lock[i] = lock[j] => i = j

\* A caller was cancelled during its first model.ainvoke, holding the lock,
\* and another caller holds the lock now, in its own model.ainvoke.
C33_Witness ==
    \E r, q \in ReqIds :
        /\ req[r].via = "cancelled" /\ req[r].priority
        /\ req[r].invocations = 1 /\ req[r].own.kind = "none"
        /\ lock # <<>> /\ Head(lock) = q /\ req[q].pc = "invoke"


\* The model.ainvoke of priority caller r returns a response in this step.
PrioritySuccess(r) == req[r].pc = "invoke" /\ req'[r].own.kind = "ok"

C34_Step ==
    \A r \in ReqIds :
        PrioritySuccess(r) =>
            LET text == req'[r].own.val
                key  == get_cache_key(req[r].messages, req[r].use_heavy_model)
            IN  /\ lock # <<>> /\ Head(lock) = r
                /\ circuit'.quota_error_count = 0
                /\ last_request_time' = now
                /\ key \in DOMAIN response_cache'
                /\ response_cache'[key] = [response |-> text, timestamp |-> now]
                /\ req'[r].pc = "done"
                /\ req'[r].res = Returned(text)
                /\ r \notin {lock'[i] : i \in DOMAIN lock'}

\* C34: the step in which a priority request's model.ainvoke succeeds is taken
\* by the holder of the pacing lock and, as one step that ends with the lock
\* released, sets _quota_error_count to 0, sets last_request_time to the time
\* of the step, stores the response's text under the request's cache key with
\* that time as its timestamp, and returns that very text to the caller.
C34_SuccessBookkeeping == [][C34_Step]_vars

\* A priority request succeeded at its second attempt, while the entry of its
\* key held another text: the entry holds the new text and the time of the
\* success, which is the time of the last call.
C34_Witness ==
    \E r, q \in ReqIds :
        /\ req[r].via = "backend" /\ req[r].priority /\ req[r].failures = 1
        /\ req[q].via = "backend" /\ req[q].res # req[r].res
        /\ get_cache_key(req[q].messages, req[q].use_heavy_model)
              = get_cache_key(req[r].messages, req[r].use_heavy_model)
        /\ req[q].t_ok < req[r].t_ok
        /\ last_request_time = req[r].t_ok
        /\ circuit.quota_error_count = 0
        /\ LET key == get_cache_key(req[r].messages, req[r].use_heavy_model)
           IN  /\ key \in DOMAIN response_cache
               /\ response_cache[key] = [response |-> req[r].res.val, timestamp |-> req[r].t_ok]


\* The batch task created first is alive and shutdown() has not cancelled it.
FirstBatchTaskRuns ==
    /\ tasks.created <= 2
    /\ tasks.batch_task \in AliveIds(tasks) \ tasks.cancelled

\* C35: while the batch task runs, every batched request whose caller still
\* awaits its future is in the queue or in a partition the batch task has
\* taken and will deliver to, whichever callers of other items were cancelled:
\* no item of a flush is left without its result or error because a sibling's
\* future was cancelled.
C35_SiblingsStillDelivered ==
    FirstBatchTaskRuns =>
        \A r \in ReqIds : req[r].pc = "queued" => r \in InQueue \cup InTodo


\* shutdown() has returned and no initialize() was called since.
ShutdownReturned == tasks.sd = "idle" /\ tasks.last = "shutdown"

\* C36: when shutdown() has returned, no caller of a batched submission still
\* awaits its future: what was queued or being flushed when shutdown() was
\* called has been given a result or an error.
C36_NoCallerLeftAtShutdown ==
    ShutdownReturned => \A r \in ReqIds : req[r].pc # "queued"


\* Caller r is inside a priority generate_response call.
InPriorityCall(r) == req[r].pc \in {"lock", "pace", "invoke", "backoff", "retry"}

\* The model.ainvoke calls a priority submission can make: max_retries + 1 in
\* each _make_request, max_retries + 1 _make_request calls.
MaxAttempts == (cfg.max_retries + 1) * (cfg.max_retries + 1)

\* C37: on an event loop that runs every ready task, with a backend that
\* answers every call and a lock granted in turn, every priority submission
\* ends, with a text or an exception, whatever rate-limit, quota and other
\* failures the backend answers with; and it has made at most
\* (max_retries + 1)^2 backend calls and at most one backoff sleep per failed
\* call, each capped at max_backoff.
C37_PriorityTerminates ==
    /\ \A r \in LiveIds : InPriorityCall(r) ~> Done(r)
    /\ [](\A r \in LiveIds :
             req[r].priority =>
                /\ req[r].invocations <= MaxAttempts
                /\ req[r].slept_total <= req[r].failures * cfg.max_backoff)

\* A priority submission ended with the exception of its last attempt, having
\* used every retry of both loops.
C37_Witness ==
    \E r \in LiveIds :
        /\ req[r].priority /\ Done(r)
        /\ req[r].invocations = MaxAttempts
        /\ req[r].res.kind = "raise"


\* Caller r submits a priority request in this step, its circuit check lets
\* it through, and the cache holds an entry for its key that is younger than
\* cache_ttl.
HitsUnexpiredEntry(r) ==
    /\ Submits(r)
    /\ ~check_circuit_breaker(circuit, now).ret
    /\ LET key == get_cache_key(req'[r].messages, req'[r].use_heavy_model)
       IN  /\ key \in DOMAIN response_cache
           /\ now - response_cache[key].timestamp < cfg.cache_ttl

\* The submission of r is answered at once with the text of the entry of its
\* key: no lock, no model.ainvoke.
ServedFromCache(r) ==
    LET key == get_cache_key(req'[r].messages, req'[r].use_heavy_model)
    IN  /\ req'[r].pc = "done"
        /\ req'[r].res = Returned(response_cache[key].response)
        /\ req'[r].invocations = 0
        /\ lock' = lock
        /\ starts' = starts

C38_Step == \A r \in ReqIds : HitsUnexpiredEntry(r) => ServedFromCache(r)

\* C38: a priority submission that finds an unexpired entry for its key
\* returns the entry's text in the step of its submission, without acquiring
\* the lock and without a model.ainvoke, whatever the text is, the empty
\* string included.
C38_HitWhateverTheText == [][C38_Step]_vars

\* The same for the entries whose text is not empty.
C38_HitUnlessEmpty ==
    [][\A r \in ReqIds :
          (/\ HitsUnexpiredEntry(r)
           /\ response_cache[get_cache_key(req'[r].messages, req'[r].use_heavy_model)].response # "")
             => ServedFromCache(r)]_vars

====
